---- MODULE Spec2Model ----
(***************************************************************************)
(* Model of the established single-stream libp2p connection driver         *)
(* (SingleStream) of smoldot:                                              *)
(*   lib/src/libp2p/connection/established/single_stream.rs                *)
(*                                                                         *)
(* The driver (read_write, process_substream, pass_through_substream_event *)
(* and the public operations) is translated from the source.  The Yamux    *)
(* multiplexer and the per-substream state machine ("D", substream.rs) are *)
(* collaborators whose code is not part of the modelled files; they are    *)
(* modelled from their documented contracts and are grouped in their own   *)
(* sections below.                                                         *)
(***************************************************************************)
EXTENDS Integers, Sequences, FiniteSets, TLC

VARIABLES
    subs,                  \* Inner::yamux: substreams known to Yamux, id -> slot + Yamux flags
    next_out,              \* Yamux: number of substreams opened locally so far
    goaway_out,            \* Yamux: "NotRequired" | "Queued" | "Sent" (local GoAway)
    goaway_in,             \* Yamux: received_goaway().is_some()
    substream_to_process,  \* Inner::substream_to_process
    next_ping,             \* Inner::next_ping
    ping_payload_randomness, \* Inner::ping_payload_randomness (stream position, mod 2)
    cfg,                   \* Config: max_inbound_substreams, ping_interval, ping_timeout
    pc,                    \* position of the caller / of read_write
    rw,                    \* the caller's ReadWrite scratchpad of the current/last call
    todo,                  \* ids still to visit by the running for-loop of read_write
    must_continue_looping, \* local variable of read_write's main loop
    ret,                   \* what the last read_write call returned
    clock,                 \* the platform's monotonic clock (last `now` handed in)
    frames_left,           \* frames the remote may still send (bounds the run)
    echo,                  \* echo peer: bytes it received and has not sent back yet
    hist,                  \* observations of the run used by the properties
    multiaddr,             \* the Multiaddr handed to multiaddr_to_address
    parsed,                \* what multiaddr_to_address returned for it
    NetworkState,          \* platform.rs: the static STATE (a NetworkState)
    futures,               \* pending futures of connect_stream / connect_multistream
    multi_wrappers,        \* MultiStreamWrapper objects alive (their connection ids)
    stream_wrappers,       \* StreamWrapper objects alive, by (connection id, stream id)
    host,                  \* the host's side of the bindings, and what it was handed
    fault                  \* "none", or the panic that aborted the node

vars == <<subs, next_out, goaway_out, goaway_in, substream_to_process, next_ping,
          ping_payload_randomness, cfg, pc, rw, todo, must_continue_looping, ret, clock, frames_left,
          echo, hist, multiaddr, parsed, NetworkState, futures, multi_wrappers, stream_wrappers,
          host, fault>>

\* The variables of the established connection and of the address parser, and
\* those of the platform.
driver == <<subs, next_out, goaway_out, goaway_in, substream_to_process, next_ping,
            ping_payload_randomness, cfg, pc, rw, todo, must_continue_looping, ret, clock,
            frames_left, echo, hist, multiaddr, parsed>>
platform == <<NetworkState, futures, multi_wrappers, stream_wrappers, host, fault>>

(***************************************************************************)
(* The wasm-node platform (platform.rs): the registry NetworkState, the objects   *)
(* the PlatformRef API hands out, and the host (JavaScript) side.          *)
(***************************************************************************)
MaxConnections == 1   \* connect_stream / connect_multistream calls of a run
MaxSubstreams == 1    \* substreams the host opens on a multi-stream connection
MaxMessages == 2      \* stream_message calls of a run
MaxCredits == 1       \* stream_writable_bytes calls of a run

\* messages_queue_total_size limit of stream_message.
MESSAGES_QUEUE_LIMIT == 25 * 1024 * 1024

\* A message (Box<[u8]>): `len` bytes, all of value `byte`.
Message(len, byte) == [len |-> len, byte |-> byte]

\* The messages the host delivers: empty, one byte less than the limit, and as
\* long as the limit.
HostMessages ==
    {Message(0, 0), Message(MESSAGES_QUEUE_LIMIT - 1, 0), Message(MESSAGES_QUEUE_LIMIT, 1)}

\* initial_writable_bytes / bytes values the host reports.
InitialWritableBytes == {0, 1}
WritableBytesCredits == {1}

\* Option<u32> of a stream id: <<>> is None, <<n>> is Some(n).
NoStreamId == <<>>
SomeStreamId(n) == <<n>>

RECURSIVE SumLen(_)
SumLen(q) == IF q = <<>> THEN 0 ELSE Head(q).len + SumLen(Tail(q))

RECURSIVE SumSeq(_)
SumSeq(q) == IF q = <<>> THEN 0 ELSE Head(q) + SumSeq(Tail(q))

MapRemove(f, k) == [x \in DOMAIN f \ {k} |-> f[x]]
MapInsert(f, k, v) == [x \in DOMAIN f \cup {k} |-> IF x = k THEN v ELSE f[x]]

\* ConnectionInner.
NotOpen == [inner |-> "NotOpen", opened_substreams_to_pick_up |-> <<>>,
            connection_handles_alive |-> 0]
SingleStreamMsNoiseYamux ==
    [inner |-> "SingleStreamMsNoiseYamux", opened_substreams_to_pick_up |-> <<>>,
     connection_handles_alive |-> 0]
MultiStreamWebRtc(pick_up, handles) ==
    [inner |-> "MultiStreamWebRtc", opened_substreams_to_pick_up |-> pick_up,
     connection_handles_alive |-> handles]
ConnectionReset(handles) ==
    [inner |-> "Reset", opened_substreams_to_pick_up |-> <<>>,
     connection_handles_alive |-> handles]

\* Stream, as the two open callbacks create it.
NewStream(initial_writable_bytes) ==
    [reset |-> FALSE, writable_bytes_extra |-> initial_writable_bytes,
     messages_queue |-> <<>>, messages_queue_total_size |-> 0]

\* StreamWrapper; `access` holds the ReadWriteAccess borrowed from it, if any,
\* and `listening` tells that its wait_read_write_again future waits on the
\* stream's something_happened.
NewStreamWrapper(writable_bytes, write_closable) ==
    [read_buffer |-> <<>>, is_reset |-> FALSE, writable_bytes |-> writable_bytes,
     write_closable |-> write_closable, write_closed |-> FALSE, access |-> <<>>,
     listening |-> FALSE]

\* something_happened.notify(usize::max_value()) of the streams `keys`: the
\* futures listening on them are woken up.
Notified(wrappers, keys) ==
    [k \in DOMAIN wrappers |->
        IF k \in keys THEN [wrappers[k] EXCEPT !.listening = FALSE] ELSE wrappers[k]]

\* connection_handles_alive given to the Reset state by connection_reset.
HandlesAtReset(connection) ==
    CASE connection.inner = "NotOpen" -> 0
      [] connection.inner = "SingleStreamMsNoiseYamux" -> 1
      [] OTHER -> connection.connection_handles_alive

\* stream_message: the message is pushed to messages_queue.
MessageQueued_AtLimit(total, message) ==
    message.len # 0 /\ total <= MESSAGES_QUEUE_LIMIT
MessageQueued(total, message) ==
    message.len # 0 /\ ~(total >= MESSAGES_QUEUE_LIMIT)

\* wait_read_write_again: read_buffer after the messages were moved to it.
ExtendedReadBuffer_Newest(read_buffer, messages_queue) ==
    read_buffer \o <<messages_queue[Len(messages_queue)]>>
ExtendedReadBuffer(read_buffer, messages_queue) == read_buffer \o messages_queue

\* MultiStreamWrapper::drop: <<remove_connection, reset_connection>>.
MultiStreamDropOutcome(connection) ==
    IF connection.inner = "MultiStreamWebRtc"
    THEN <<connection.connection_handles_alive - 1 = 0,
           connection.connection_handles_alive - 1 = 0>>
    ELSE <<TRUE, FALSE>>

PlatformInit ==
    /\ NetworkState = [next_connection_id |-> 0, connections |-> <<>>, streams |-> <<>>]
    /\ futures = <<>>
    /\ multi_wrappers = {}
    /\ stream_wrappers = <<>>
    /\ host = [kind |-> <<>>, conn |-> <<>>, open |-> {}, sent |-> <<>>,
               granted |-> <<>>, messages |-> 0, credits |-> 0,
               refused |-> 0]
    /\ fault = "none"

\* A panic (unwrap on None, assert!, unreachable!, todo!) aborts the node.
Abort(site) ==
    /\ fault' = site
    /\ UNCHANGED <<NetworkState, futures, multi_wrappers, stream_wrappers, host, driver>>

Connections == DOMAIN NetworkState.connections
Streams == DOMAIN NetworkState.streams
StreamsOf(connection_id) == {k \in Streams : k[1] = connection_id}

\* debug_assert!(holds): a build with debug assertions aborts when it does not
\* hold, a build without them goes on.
DebugAssert(holds, site, continue) ==
    \/ ~holds /\ Abort(site)
    \/ continue

(***************************************************************************)
(* Bounds of the model.                                                    *)
(***************************************************************************)
MaxNow == 1          \* clock values are 0..MaxNow
MaxFrames == 3       \* frames the remote sends over the life of a connection
WordBits == 8        \* width of the words standing for u64 (scaled down)
MaxQueued == 1       \* bytes queued before the caller offers write capacity, or
                     \* that let one more notification be written

\* Frames the caller may put in the incoming buffer of one read_write call,
\* and the write capacity it may offer (write_bytes_queueable).
Incomings == {0, 1, 2}
Capacities == {0, 2}
\* Substream ids the remote may use for the substreams it opens.
PeerIds == {2, 4}

None == "None"
UserDatas == {"U1", "U2"}
Bytes == {0, 1}
\* Request and response bodies.
Bodies == {<<>>, <<0>>, <<1>>}

LocalId(n) == 2 * n + 1
PingId == LocalId(0)

Min(a, b) == IF a <= b THEN a ELSE b
Max(a, b) == IF a >= b THEN a ELSE b

\* u64::MAX, and u64 arithmetic that saturates at the bounds of the type.
U64Max == 2 ^ WordBits - 1
saturating_add(a, b) == Min(a + b, U64Max)
saturating_sub(a, b) == Max(a - b, 0)

RECURSIVE SortedSeq(_)
\* The elements of a finite set of integers in increasing order.
SortedSeq(S) ==
    IF S = {} THEN <<>>
    ELSE LET m == CHOOSE x \in S : \A y \in S : x <= y
         IN <<m>> \o SortedSeq(S \ {m})

Take(s, n) == SubSeq(s, 1, n)
Drop(s, n) == SubSeq(s, n + 1, Len(s))

(***************************************************************************)
(* The substream state machine D (substream::Substream).  Modelled from    *)
(* its contract: read_write(scratchpad) -> (next state or terminated,      *)
(* optional raw event), the caller-driven transitions and reset().         *)
(* A D-machine is [ph, acc, tmo]: its phase, the bytes it holds (request   *)
(* to send, response being received, queued notification or ping payload)  *)
(* and, for an outgoing request, its timeout.  Phase "Gone" stands for     *)
(* "no next state".                                                        *)
(***************************************************************************)
NoEv == [ty |-> None, ok |-> TRUE, data |-> <<>>]
RawEv(ty, ok, data) == [ty |-> ty, ok |-> ok, data |-> data]

\* Length-prefixed framing of a request or response body.
Frame(body) == <<Len(body)>> \o body
FrameComplete(acc) == Len(acc) >= 1 /\ Len(acc) = 1 + acc[1]
\* How many bytes of inc the response parser takes, having acc already.
FrameTake(acc, inc) ==
    IF inc = <<>> THEN 0
    ELSE IF acc = <<>> THEN Min(Len(inc), 1 + inc[1])
    ELSE Min(Len(inc), 1 + acc[1] - Len(acc))

DOut(ph, acc, ev, read, wr, close) ==
    [ph |-> ph, acc |-> acc, ev |-> ev, read |-> read, wr |-> wr, close |-> close]

\* Substream::read_write.  inc: the scratchpad's incoming_buffer; rdClosed:
\* expected_incoming_bytes is None; wrClosed: write_bytes_queueable is None.
\* The result is the set of steps D may take.
DReadWrite(d, now, inc, rdClosed, wrClosed) ==
    LET eof   == rdClosed /\ inc = <<>>
        some  == inc # <<>>
        n     == Len(inc)
        stay  == DOut(d.ph, d.acc, NoEv, 0, <<>>, FALSE)
        W(b)  == IF wrClosed THEN <<>> ELSE b
    IN CASE d.ph = "InNego" ->
              (IF eof THEN {} ELSE {stay})
              \cup (IF some
                    THEN {DOut("InNego", <<>>, NoEv, n, <<>>, FALSE),
                          DOut("InApiWait", <<>>, RawEv("InboundNegotiated", TRUE, <<>>), 1, <<>>, FALSE),
                          DOut("Gone", <<>>, RawEv("InboundError", FALSE, <<>>), n, <<>>, FALSE)}
                    ELSE {})
              \cup (IF eof
                    THEN {DOut("Gone", <<>>, RawEv("InboundError", FALSE, <<>>), 0, <<>>, FALSE)}
                    ELSE {})
         [] d.ph \in {"InApiWait", "ReqInApiWait"} -> {stay}
         [] d.ph = "ReqInRecv" ->
              (IF eof THEN {} ELSE {stay})
              \cup (IF some
                    THEN {DOut("ReqInApiWait", <<>>, RawEv("RequestIn", TRUE, Take(inc, 1)), 1, <<>>, FALSE),
                          DOut("Gone", <<>>, RawEv("InboundError", TRUE, <<>>), n, <<>>, FALSE)}
                    ELSE {})
              \cup (IF eof
                    THEN {DOut("Gone", <<>>, RawEv("InboundError", TRUE, <<>>), 0, <<>>, FALSE)}
                    ELSE {})
         [] d.ph = "ReqInRespond" -> {DOut("Gone", <<>>, NoEv, 0, W(d.acc), TRUE)}
         [] d.ph = "NotifInHandshake" ->
              (IF eof THEN {} ELSE {stay})
              \cup (IF some
                    THEN {DOut("NotifInWait", <<>>, RawEv("NotificationsInOpen", TRUE, Take(inc, 1)), 1, <<>>, FALSE),
                          DOut("Gone", <<>>, RawEv("InboundError", TRUE, <<>>), n, <<>>, FALSE)}
                    ELSE {})
              \cup (IF eof
                    THEN {DOut("Gone", <<>>, RawEv("InboundError", TRUE, <<>>), 0, <<>>, FALSE)}
                    ELSE {})
         [] d.ph = "NotifInWait" ->
              IF eof
              THEN {DOut("Gone", <<>>, RawEv("NotificationsInOpenCancel", TRUE, <<>>), 0, <<>>, FALSE)}
              ELSE {stay}
         [] d.ph = "NotifIn" ->
              (IF eof
               THEN {DOut("NotifInClosed", <<>>, RawEv("NotificationsInClose", TRUE, <<>>), 0, <<>>, FALSE)}
               ELSE {DOut("NotifIn", <<>>, NoEv, 0, W(d.acc), FALSE)})
              \cup (IF some
                    THEN {DOut("NotifIn", d.acc, RawEv("NotificationIn", TRUE, Take(inc, 1)), 1, <<>>, FALSE),
                          DOut("Gone", <<>>, RawEv("NotificationsInClose", FALSE, <<>>), n, <<>>, FALSE)}
                    ELSE {})
         [] d.ph \in {"NotifInRefused", "NotifInClosed"} ->
              {DOut("Gone", <<>>, NoEv, 0, <<>>, TRUE)}
         \* closed by the API user: D closes its writing side and terminates
         \* now or on a later step
         [] d.ph = "NotifOutClosed" ->
              {DOut("Gone", <<>>, NoEv, 0, <<>>, TRUE),
               DOut("NotifOutClosed", <<>>, NoEv, 0, <<>>, TRUE)}
         [] d.ph = "PingIn" ->
              IF some THEN {DOut("PingIn", <<>>, NoEv, n, W(Take(inc, 1)), FALSE)}
              ELSE IF eof THEN {DOut("Gone", <<>>, NoEv, 0, <<>>, TRUE)}
              ELSE {stay}
         [] d.ph = "ReqOutSend" ->
              IF now > d.tmo
              THEN {DOut("Gone", <<>>, RawEv("Response", FALSE, <<>>), 0, <<>>, TRUE)}
              ELSE IF wrClosed
              THEN {DOut("Gone", <<>>, RawEv("Response", FALSE, <<>>), 0, <<>>, TRUE)}
              ELSE {DOut("ReqOut", <<>>, NoEv, 0, d.acc, TRUE)}
         [] d.ph = "ReqOut" ->
              LET k    == FrameTake(d.acc, inc)
                  acc2 == d.acc \o Take(inc, k)
              IN IF now > d.tmo
                 THEN {DOut("Gone", <<>>, RawEv("Response", FALSE, <<>>), 0, <<>>, TRUE)}
                 ELSE IF FrameComplete(acc2)
                 THEN {DOut("Gone", <<>>, RawEv("Response", TRUE, Tail(acc2)), k, <<>>, TRUE)}
                 ELSE IF rdClosed
                 THEN {DOut("Gone", <<>>, RawEv("Response", FALSE, <<>>), k, <<>>, TRUE)}
                 ELSE {DOut("ReqOut", acc2, NoEv, k, <<>>, FALSE)}
         [] d.ph = "NotifOutNego" ->
              (IF eof THEN {} ELSE {DOut("NotifOutNego", <<>>, NoEv, 0, W(d.acc), FALSE)})
              \cup (IF some
                    THEN {DOut("NotifOut", <<>>, RawEv("NotificationsOutResult", TRUE, Take(inc, 1)), 1, <<>>, FALSE)}
                    ELSE {})
              \cup {DOut("Gone", <<>>, RawEv("NotificationsOutResult", FALSE, <<>>), n, <<>>, TRUE)}
         [] d.ph = "NotifOut" ->
              IF rdClosed
              THEN {DOut("NotifOutDemanded", d.acc, RawEv("NotificationsOutCloseDemanded", TRUE, <<>>), n, <<>>, FALSE)}
              ELSE {DOut("NotifOut", <<>>, NoEv, n, W(d.acc), FALSE)}
         [] d.ph = "NotifOutDemanded" -> {DOut("NotifOutDemanded", <<>>, NoEv, n, W(d.acc), FALSE)}
         [] d.ph = "PingOut" ->
              IF d.acc = <<>> THEN {DOut("PingOut", <<>>, NoEv, n, <<>>, FALSE)}
              ELSE IF wrClosed
              THEN {DOut("PingOut", <<>>, RawEv("PingOutError", FALSE, <<>>), n, <<>>, FALSE)}
              ELSE {DOut("PingOutWait", <<>>, NoEv, n, d.acc, FALSE)}
         [] d.ph = "PingOutWait" ->
              IF now > d.tmo
              THEN {DOut("PingOut", d.acc, RawEv("PingOutError", FALSE, <<>>), 0, <<>>, FALSE)}
              ELSE IF some
              THEN {DOut("PingOut", d.acc, RawEv("PingOutSuccess", TRUE, <<>>), 1, <<>>, FALSE)}
              ELSE {DOut("PingOutWait", <<>>, NoEv, 0, W(d.acc), FALSE)}

\* Substream::reset: the final raw event of a machine that is abruptly
\* terminated, or NoEv.
DReset(d) ==
    CASE d.ph = "InApiWait" -> RawEv("InboundNegotiatedCancel", TRUE, <<>>)
      [] d.ph \in {"ReqOutSend", "ReqOut"} -> RawEv("Response", FALSE, <<>>)
      [] d.ph = "NotifInWait" -> RawEv("NotificationsInOpenCancel", TRUE, <<>>)
      [] d.ph = "NotifIn" -> RawEv("NotificationsInClose", FALSE, <<>>)
      [] d.ph = "NotifOutNego" -> RawEv("NotificationsOutResult", FALSE, <<>>)
      [] d.ph \in {"NotifOut", "NotifOutDemanded"} -> RawEv("NotificationsOutReset", TRUE, <<>>)
      [] OTHER -> NoEv

\* Constructors of D.
DIngoing == [ph |-> "InNego", acc |-> <<>>, tmo |-> 0]
DRequestOut(request, timeout) == [ph |-> "ReqOutSend", acc |-> Frame(request), tmo |-> timeout]
DNotificationsOut(handshake) == [ph |-> "NotifOutNego", acc |-> handshake, tmo |-> 0]
DPingOut == [ph |-> "PingOut", acc |-> <<>>, tmo |-> 0]
\* The state entered by accept_inbound(ty).
DAcceptedPhase(ty) ==
    CASE ty = "Request" -> "ReqInRecv"
      [] ty = "Notifications" -> "NotifInHandshake"
      [] ty = "Ping" -> "PingIn"
InboundTys == {"Request", "Notifications", "Ping"}

(***************************************************************************)
(* The Yamux multiplexer (yamux::Yamux), modelled from its contract.  A   *)
(* substream known to Yamux is a record                                    *)
(*   present, d, ud, buf : the user data slot Option<(D, Option<ud>, Vec)> *)
(*   inbound             : opened by the remote                            *)
(*   rd, wr              : can_receive / can_send                          *)
(*   reset               : the substream was reset (by either side)        *)
(*   wq                  : bytes written to it that are not flushed yet    *)
(*   win                 : credit the remote has left to send data         *)
(***************************************************************************)
\* Window every new substream starts with, in bytes (scaled down).
NEW_SUBSTREAMS_FRAME_SIZE == 66

DGone == [ph |-> "Gone", acc |-> <<>>, tmo |-> 0]

YNewSub(d, ud, inbound) ==
    [present |-> TRUE, d |-> d, ud |-> ud, buf |-> <<>>, inbound |-> inbound,
     rd |-> TRUE, wr |-> TRUE, reset |-> FALSE, wq |-> <<>>,
     win |-> NEW_SUBSTREAMS_FRAME_SIZE]

YInsert(s, id, sub) == [i \in DOMAIN s \cup {id} |-> IF i = id THEN sub ELSE s[i]]
YRemove(s, id) == [i \in DOMAIN s \ {id} |-> s[i]]

has_substream(s, id) == id \in DOMAIN s
can_receive(s, id) == s[id].rd /\ ~s[id].reset
can_send(s, id) == s[id].wr /\ ~s[id].reset
num_inbound(s) == Cardinality({i \in DOMAIN s : s[i].inbound})
is_empty(s) == DOMAIN s = {}
\* Death type of a substream: "Reset", "ClosedGracefully" or "Alive".
YDeath(sub) ==
    IF sub.reset THEN "Reset"
    ELSE IF ~sub.rd /\ ~sub.wr /\ sub.wq = <<>> THEN "ClosedGracefully"
    ELSE "Alive"
dead_substreams(s) == {i \in DOMAIN s : YDeath(s[i]) # "Alive"}

add_remote_window_saturating(s, id, n) == [s EXCEPT ![id].win = saturating_add(@, n)]
YWrite(s, id, bytes) == [s EXCEPT ![id].wq = @ \o bytes]
YClose(s, id) == [s EXCEPT ![id].wr = FALSE]
YReset(s, id) == [s EXCEPT ![id].reset = TRUE, ![id].rd = FALSE, ![id].wr = FALSE,
                             ![id].wq = <<>>]
\* Yamux::reset fails on a substream that is dead already.
YResetFails(s, id) == s[id].reset \/ (~s[id].rd /\ ~s[id].wr)
\* The slot of a substream, taken out (Option::take) or put back.
YTakeSlot(s, id) == [s EXCEPT ![id].present = FALSE, ![id].d = DGone,
                                ![id].ud = None, ![id].buf = <<>>]
YPutSlot(s, id, d, ud, buf) == [s EXCEPT ![id].present = TRUE, ![id].d = d,
                                          ![id].ud = ud, ![id].buf = buf]

\* Frames the remote can send in the current state.  "Other" is a frame that
\* yields no detail (window update, data of a substream already removed),
\* "Bad" a malformed frame.
Frm(k, id, byte) == [k |-> k, id |-> id, byte |-> byte]
YLegalFrames(s) ==
    {Frm("Syn", i, 0) : i \in PeerIds \ DOMAIN s}
    \cup {Frm("Data", i, b) : i \in {j \in DOMAIN s : can_receive(s, j) /\ s[j].win >= 1},
                              b \in Bytes}
    \cup {Frm("Fin", i, 0) : i \in {j \in DOMAIN s : can_receive(s, j)}}
    \cup {Frm("Rst", i, 0) : i \in {j \in DOMAIN s : YDeath(s[j]) = "Alive"}}
    \cup {Frm("GoAway", 0, 0), Frm("Other", 0, 0), Frm("Bad", 0, 0)}

\* Yamux::incoming_data on one frame: the detail reported to the driver.
YDetail(f, s, gout, gin) ==
    CASE f.k = "Syn" -> IF gout # "NotRequired" THEN "None" ELSE "IncomingSubstream"
      [] f.k = "Data" -> "DataFrame"
      [] f.k = "Fin" -> "StreamClosed"
      [] f.k = "Rst" -> "StreamReset"
      [] f.k = "GoAway" -> IF gin THEN "Error" ELSE "GoAway"
      [] f.k = "Other" -> "None"
      [] f.k = "Bad" -> "Error"
\* Yamux::received_goaway after one more frame.
YReceivedGoAway(f, gin) == gin \/ f.k = "GoAway"
\* Yamux::incoming_data on one frame: the substreams afterwards.
YDecoded(f, s) ==
    CASE f.k = "Data" -> [s EXCEPT ![f.id].win = @ - 1]
      [] f.k = "Fin" -> [s EXCEPT ![f.id].rd = FALSE]
      [] f.k = "Rst" -> YReset(s, f.id)
      [] OTHER -> s

\* Yamux::extract_next in a loop against a write side of capacity cap:
\* the substreams after as many queued bytes as fit have been extracted.
RECURSIVE YFlushData(_, _, _)
YFlushData(s, ids, cap) ==
    IF ids = <<>> \/ cap <= 0 THEN s
    ELSE LET id == Head(ids)
             k  == Min(Len(s[id].wq), cap)
         IN YFlushData([s EXCEPT ![id].wq = Drop(@, k)], Tail(ids), cap - k)
RECURSIVE SumQueued(_, _)
SumQueued(s, ids) ==
    IF ids = {} THEN 0
    ELSE LET id == CHOOSE i \in ids : TRUE
         IN Len(s[id].wq) + SumQueued(s, ids \ {id})
\* The queued GoAway frame counts for one byte and goes out first.
YFlush(s, gout, cap) ==
    LET g    == IF gout = "Queued" /\ cap >= 1 THEN 1 ELSE 0
        s2   == YFlushData(s, SortedSeq(DOMAIN s), cap - g)
    IN [subs |-> s2,
        gout |-> IF g = 1 THEN "Sent" ELSE gout,
        sent |-> g + SumQueued(s, DOMAIN s) - SumQueued(s2, DOMAIN s)]

(***************************************************************************)
(* The connection driver.                                                  *)
(***************************************************************************)
NoEvent == [ty |-> None, id |-> 0, ud |-> None, ok |-> TRUE, data |-> <<>>]
Event(ty, id, ud, ok, data) == [ty |-> ty, id |-> id, ud |-> ud, ok |-> ok, data |-> data]

\* Raw events whose translation moves the user data out of the slot
\* (substream_user_data.take().unwrap()).
TakesUserData(ev) ==
    \/ ev.ty = "InboundError" /\ ev.ok
    \/ ev.ty \in {"Response", "NotificationsInClose", "NotificationsOutReset"}
    \/ ev.ty = "NotificationsOutResult" /\ ~ev.ok

\* Faulty variant: the user data stays in the slot and the event goes without it.
pass_through_substream_event_Keeps(id, ud, ev) ==
    [event |-> Event(ev.ty, id, None, ev.ok, ev.data), ud |-> ud, panic |-> None]
\* SingleStream::pass_through_substream_event.  The result holds the public
\* event, the user data left in the slot, and whether take().unwrap() aborted.
pass_through_substream_event(id, ud, ev) ==
    LET ty == CASE ev.ty = "InboundError" /\ ev.ok -> "InboundAcceptedCancel"
                [] ev.ty = "PingOutError" -> "PingOutFailed"
                [] OTHER -> ev.ty
        anonymous == ty \in {"InboundError", "PingOutSuccess", "PingOutFailed"}
    IN IF TakesUserData(ev)
       THEN [event |-> Event(ty, id, ud, ev.ok, ev.data), ud |-> None,
             panic |-> IF ud = None THEN "take_unwrap" ELSE None]
       ELSE [event |-> Event(ty, IF anonymous THEN 0 ELSE id, None, ev.ok, ev.data),
             ud |-> ud, panic |-> None]

\* The scratchpad handed to D by process_substream, and the steps D may take.
DNoStep == DOut("Gone", <<>>, NoEv, 0, <<>>, FALSE)
ProcessSteps(s, id, now) ==
    IF s[id].present
    THEN DReadWrite(s[id].d, now, s[id].buf, ~can_receive(s, id), ~can_send(s, id))
    ELSE {DNoStep}
\* Deadline D registers with wake_up_after (the timeout of a request or of a
\* ping), or -1.
DWakeUp(d, o) == IF o.ph \in {"ReqOut", "PingOutWait"} THEN d.tmo ELSE -1

\* Faulty variant: the D-machine is never put back.
HasNextState_Never(o) == FALSE
\* Whether D reported a next state: substream_update is Some (line 555).
HasNextState(o) == o.ph # "Gone"

\* Faulty variant: the write side is closed again whenever D leaves it closed.
CloseDue_Again(write_is_closed, closed_after) == closed_after
\* Whether process_substream closes the write side of the substream (line
\* 547): D closed a write side that was open.
CloseDue(write_is_closed, closed_after) == ~write_is_closed /\ closed_after

\* Faulty variant: a substream whose D-machine is gone is never reset.
ResetDue_Never(closed_after, read_is_closed) == FALSE
\* Faulty variant: the read side is not looked at.
ResetDue_WriteOnly(closed_after, read_is_closed) == ~closed_after
\* Whether process_substream resets the substream of a D-machine that
\* reported no next state (line 562).
ResetDue(closed_after, read_is_closed) == ~closed_after \/ ~read_is_closed

\* Faulty variant: the bytes D has read stay in the buffer.
RemainingBuffer_Untouched(buf, read) == buf
\* The incoming_buffer of the scratchpad after D took `read` bytes from its
\* front, put back into the slot (lines 556-559).
RemainingBuffer(buf, read) == Drop(buf, read)

\* Faulty variant: one byte of credit more than D has read.
WindowCredit_OneMore(read_bytes) == read_bytes + 1
\* The credit handed to add_remote_window_saturating (lines 531-534):
\* u64::try_from(substream_read_write.read_bytes).unwrap().
WindowCredit(read_bytes) == read_bytes

\* SingleStream::process_substream, D having taken step o.
process_substream(s, id, o) ==
    IF ~s[id].present
    THEN [subs |-> s, call_again |-> FALSE, event |-> NoEvent, wake |-> -1, panic |-> None]
    ELSE
    LET slot            == s[id]
        read_is_closed  == ~can_receive(s, id)
        write_is_closed == ~can_send(s, id)
        s0 == YTakeSlot(s, id)
        s1 == add_remote_window_saturating(s0, id, WindowCredit(o.read))
        closed_after == write_is_closed \/ o.close
        s2 == IF o.wr # <<>> THEN YWrite(s1, id, o.wr) ELSE s1
        s3 == IF CloseDue(write_is_closed, closed_after) THEN YClose(s2, id) ELSE s2
        close_fails == CloseDue(write_is_closed, closed_after) /\ ~can_send(s2, id)
        pt == IF o.ev.ty = None
              THEN [event |-> NoEvent, ud |-> slot.ud, panic |-> None]
              ELSE pass_through_substream_event(id, slot.ud, o.ev)
        s4 == IF HasNextState(o)
              THEN YPutSlot(s3, id, [ph |-> o.ph, acc |-> o.acc, tmo |-> slot.d.tmo],
                            pt.ud, RemainingBuffer(slot.buf, o.read))
              ELSE IF ResetDue(closed_after, read_is_closed) THEN YReset(s3, id) ELSE s3
        reset_fails == ~HasNextState(o) /\ ResetDue(closed_after, read_is_closed)
                          /\ YResetFails(s3, id)
    IN [subs |-> s4,
        call_again |-> o.read # 0 \/ Len(o.wr) # 0 \/ pt.event.ty # None,
        event |-> pt.event,
        wake |-> DWakeUp(slot.d, o),
        panic |-> IF pt.panic # None THEN pt.panic
                  ELSE IF o.wr # <<>> /\ write_is_closed THEN "assert_write"
                  ELSE IF close_fails THEN "close_unwrap"
                  ELSE IF reset_fails THEN "reset_unwrap" ELSE None]

\* ReadWrite::wake_up_after and ReadWrite::wake_up_asap (-1: no wake-up set).
wake_up_after(r, t) ==
    IF t = -1 THEN r
    ELSE [r EXCEPT !.wake = IF @ = -1 THEN t ELSE Min(@, t)]
wake_up_asap(r) == wake_up_after(r, r.now)
close_write(r) == [r EXCEPT !.cap = -1]

NoRet == [kind |-> None, ev |-> NoEvent, site |-> None]
RetOk(ev, site) == [kind |-> "Ok", ev |-> ev, site |-> site]
RetErr(site) == [kind |-> "Err", ev |-> NoEvent, site |-> site]

\* Events that end the life of the substream they are tagged with.
TerminalTys == {"Response", "NotificationsInClose", "NotificationsOutReset",
                "InboundAcceptedCancel"}
\* Events whose payload owns the user data of the substream.
CarriesUserData(ev) ==
    \/ ev.ty \in TerminalTys
    \/ ev.ty = "NotificationsOutResult" /\ ~ev.ok

\* What the observer records when read_write returns event ev from `site`.
\*   term : ids of the substreams that had their terminal event
\*   old  : the same, ids of earlier substreams of the remote included
\*   reapx, reap : an event was tagged with an id of term, of old
\*   given, twice : ids whose user data was handed back; one was handed back twice
\*   req : in the echo scenario, the request that was added and its user data
\*   owed : bytes yielded by Yamux DataFrames minus bytes read by the D-machines
\*   fed : ids of the substreams that were yielded data
\*   swept : "ok" until the sweep leaves a dead substream in a way other than
\*           removed (reset, slot absent, D terminated) or reinserted (D has
\*           a next state)
\*   stepped : ids of the substreams whose D-machine was stepped (read_write)
\*             by the running call
\*   again : the places (pre-flush pass, main loop, sweep) where the running
\*           call stepped a D-machine it had stepped already
\*   fresh : ids of the slots whose inbound buffer holds bytes that no step
\*           of D has been offered yet
\*   tick : the last graceful-close tick of the sweep, if any: the scratchpad
\*          D was shown, the bytes it read and wrote, the slot's inbound buffer
\*          and whether it held bytes never offered to D
\*   max_response : the max_response_size of the last substream opened
\*                  (no element for a notifications substream)
\*   closing : whether the running call began with both GoAways exchanged and
\*             no substream left ("due"), the write side being closed already
\*             ("closed"), or not ("no")
\*   pend : per substream, the bytes its DataFrames yielded that its D-machine
\*          has not read yet (kept while the slot is present)
Pending(h, id) == IF id \in DOMAIN h.pend THEN h.pend[id] ELSE <<>>
PendingPut(pend, id, bytes) ==
    [i \in (DOMAIN pend \ {id}) \cup (IF bytes = <<>> THEN {} ELSE {id}) |->
        IF i = id THEN bytes ELSE pend[i]]
\* The slots that are absent or gone from Yamux (s) are forgotten.
PendingKept(pend, s) ==
    [i \in {j \in DOMAIN pend : j \in DOMAIN s /\ s[j].present} |-> pend[i]]
\* A DataFrame yielded bytes for substream id.
Yielded(h, id, bytes) ==
    [h EXCEPT !.owed = @ + Len(bytes),
              !.fresh = @ \cup {id},
              !.pend = PendingPut(@, id, Pending(h, id) \o bytes)]
\* The D-machine of substream id read n bytes; the substreams are s afterwards.
Consumed(h, id, n, s) ==
    [h EXCEPT !.owed = @ - n,
              !.pend = PendingKept(PendingPut(@, id, Drop(Pending(h, id), n)), s)]
\* Faulty variant: the scratchpad leaves the writing side open.
SweepScratchpad_Open == [inc |-> <<>>, rdClosed |-> TRUE, wrClosed |-> FALSE]
\* The scratchpad of the graceful-close tick (lines 419-428): incoming_buffer
\* Vec::new(), expected_incoming_bytes None, write_bytes_queueable None.
SweepScratchpad == [inc |-> <<>>, rdClosed |-> TRUE, wrClosed |-> TRUE]
\* The sweep visited dead substream id of s, D having taken step o if it was
\* ticked; the substreams are s2 afterwards.
Swept(h, s, id, o, s2) ==
    [h EXCEPT
       !.tick = IF YDeath(s[id]) = "ClosedGracefully" /\ s[id].present
                THEN {[scratchpad |-> SweepScratchpad, read |-> o.read,
                       wr |-> o.wr, buf |-> s[id].buf, fresh |-> id \in h.fresh]}
                ELSE @,
       !.fresh = IF id \in DOMAIN s2 THEN @ ELSE @ \ {id},
       !.swept =
        IF @ # "ok" THEN @
        ELSE IF YDeath(s[id]) = "Reset" \/ ~s[id].present
        THEN (IF id \in DOMAIN s2 THEN "kept" ELSE "ok")
        ELSE IF o.ph = "Gone"
        THEN (IF id \in DOMAIN s2 THEN "kept" ELSE "ok")
        ELSE IF id \notin DOMAIN s2 THEN "early"
        ELSE IF ~s2[id].present \/ s2[id].d.ph # o.ph THEN "lost"
        ELSE "ok"]
\* process_substream offered the whole inbound buffer of substream id to D,
\* which read n bytes of it; the substreams are s afterwards.
Offered(h, id, n, s) == [Consumed(h, id, n, s) EXCEPT !.fresh = @ \ {id}]
\* D.read_write was invoked on the machine of substream id at `place`, if
\* the slot was present.
Stepped(h, id, place, present) ==
    IF ~present THEN h
    ELSE [h EXCEPT !.stepped = @ \cup {id},
                   !.again = IF id \in h.stepped THEN @ \cup {place} ELSE @]
HistReturn(h, ev, site) ==
    IF ev.ty = None THEN h
    ELSE [h EXCEPT
            !.fwd = IF ev.ty = "NewOutboundSubstreamsForbidden" THEN Min(@ + 1, 2) ELSE @,
            !.reap = @ \/ (ev.id # 0 /\ ev.id \in h.old),
            !.reapx = @ \/ (ev.id # 0 /\ ev.id \in h.term),
            !.term = IF ev.id # 0 /\ (ev.ty \in TerminalTys \/ site = "sweep_reset")
                     THEN @ \cup {ev.id} ELSE @,
            !.old = IF ev.id # 0 /\ (ev.ty \in TerminalTys \/ site = "sweep_reset")
                    THEN @ \cup {ev.id} ELSE @,
            !.twice = @ \/ (CarriesUserData(ev) /\ ev.id \in h.given),
            !.given = IF CarriesUserData(ev) THEN @ \cup {ev.id} ELSE @]

(***************************************************************************)
(* The multiaddress surface: multiaddr_to_address (address_parse.rs).      *)
(* A Multiaddr is a sequence of components (ProtocolRef), each a protocol  *)
(* with its payload, a sequence of numbers: the bytes of an address, of a  *)
(* host name or of a multihash, the port.                                  *)
(***************************************************************************)
Component(p, v) == [p |-> p, v |-> v]
\* Option::None of iter.next() (lines 34-35).
NoComponent == Component(None, <<>>)

\* Result<AddressOrMultiStreamAddress, Error>, and the call not made yet.
Ok(v) == [tag |-> "Ok", v |-> v]
Err(e) == [tag |-> "Err", v |-> [error |-> e]]
Aborted(site) == [tag |-> "Abort", v |-> [site |-> site]]
NotParsed == [tag |-> "NotParsed", v |-> [error |-> None]]

\* A multihash as bytes: the code of the algorithm, the length of the
\* digest, the digest (codes and lengths below 128: one byte each).
MultihashBytes(code, digest) == <<code, Len(digest)>> \o digest
\* multihash::MultihashRef::from_bytes.
MultihashFromBytes(bytes) ==
    IF Len(bytes) >= 2 /\ bytes[2] = Len(bytes) - 2
    THEN [ok |-> TRUE, code |-> bytes[1], data |-> SubSeq(bytes, 3, Len(bytes))]
    ELSE [ok |-> FALSE, code |-> 0, data |-> <<>>]

\* Faulty variant: the bytes that are not UTF-8 are dropped.
from_utf8_Lossy(bytes) ==
    [ok |-> TRUE, str |-> SelectSeq(bytes, LAMBDA b : b < 128)]
\* str::from_utf8, for bytes that are ASCII or a byte no UTF-8 text holds.
from_utf8(bytes) ==
    IF \A i \in 1..Len(bytes) : bytes[i] < 128
    THEN [ok |-> TRUE, str |-> bytes]
    ELSE [ok |-> FALSE, str |-> <<>>]

\* The code the certhash must carry (line 110) and the length of the
\* certificate hash, [u8; 32] (line 113).
Sha256Code == 12
Sha256Len == 32

IsIp(c) == c.p \in {"Ip4", "Ip6"}
IsDns(c) == c.p \in {"Dns", "Dns4", "Dns6"}
\* IpAddr::V4(ip) / IpAddr::V6(ip).
IpAddr(c) == [version |-> IF c.p = "Ip4" THEN "V4" ELSE "V6", ip |-> c.v]

\* Faulty variant: components after the fourth are ignored.
Trailing_Ignored(m) == FALSE
\* iter.next().is_some() after four components were taken (lines 37-39).
Trailing(m) == Len(m) > 4

\* Faulty variant: any algorithm is taken for SHA-256.
WrongAlgorithm_Never(multihash) == FALSE
\* multihash.hash_algorithm_code() != 12 (lines 110, 132).
WrongAlgorithm(multihash) == multihash.code # Sha256Code

\* A host name component as a TcpDns / WebSocketDns address (lines 59-62,
\* 80-84, 96-100): the ? operator returns the error of from_utf8.
TcpDns(addr, port) ==
    LET hostname == from_utf8(addr.v)
    IN IF hostname.ok
       THEN Ok([kind |-> "TcpDns", hostname |-> hostname.str, port |-> port.v[1]])
       ELSE Err("NonUtf8DomainName")
WebSocketDns(addr, port, secure) ==
    LET hostname == from_utf8(addr.v)
    IN IF hostname.ok
       THEN Ok([kind |-> "WebSocketDns", hostname |-> hostname.str, port |-> port.v[1],
                secure |-> secure])
       ELSE Err("NonUtf8DomainName")
\* The WebRTC arms (lines 102-144).
WebRtc(ip, port, hash) ==
    LET multihash == MultihashFromBytes(hash.v)
    IN IF ~multihash.ok THEN Aborted("multihash_unwrap")
       ELSE IF WrongAlgorithm(multihash) THEN Err("NonSha256Certhash")
       ELSE IF Len(multihash.data) # Sha256Len THEN Err("InvalidMultihashLength")
       ELSE Ok([kind |-> "WebRtc", ip |-> IpAddr(ip), port |-> port.v[1],
                remote_certificate_sha256 |-> multihash.data])

multiaddr_to_address(m) ==
    IF Len(m) < 2 THEN Err("UnknownCombination")
    ELSE IF Trailing(m) THEN Err("UnknownCombination")
    ELSE LET proto1 == m[1]
             proto2 == m[2]
             proto3 == IF Len(m) >= 3 THEN m[3] ELSE NoComponent
             proto4 == IF Len(m) >= 4 THEN m[4] ELSE NoComponent
         IN IF IsIp(proto1) /\ proto2.p = "Tcp" /\ proto3 = NoComponent
                 /\ proto4 = NoComponent
            THEN Ok([kind |-> "TcpIp", ip |-> IpAddr(proto1), port |-> proto2.v[1]])
            ELSE IF IsDns(proto1) /\ proto2.p = "Tcp" /\ proto3 = NoComponent
                      /\ proto4 = NoComponent
            THEN TcpDns(proto1, proto2)
            ELSE IF IsIp(proto1) /\ proto2.p = "Tcp" /\ proto3.p = "Ws"
                      /\ proto4 = NoComponent
            THEN Ok([kind |-> "WebSocketIp", ip |-> IpAddr(proto1), port |-> proto2.v[1]])
            ELSE IF IsDns(proto1) /\ proto2.p = "Tcp" /\ proto3.p = "Ws"
                      /\ proto4 = NoComponent
            THEN WebSocketDns(proto1, proto2, FALSE)
            ELSE IF IsDns(proto1) /\ proto2.p = "Tcp"
                      /\ \/ proto3.p = "Wss" /\ proto4 = NoComponent
                         \/ proto3.p = "Tls" /\ proto4.p = "Ws"
            THEN WebSocketDns(proto1, proto2, TRUE)
            ELSE IF IsIp(proto1) /\ proto2.p = "Udp" /\ proto3.p = "WebRtcDirect"
                      /\ proto4.p = "Certhash"
            THEN WebRtc(proto1, proto2, proto4)
            ELSE Err("UnknownCombination")

\* The components the multiaddresses of the model are made of.  A digest of
\* n bytes; host names in ASCII and with the byte 0xff; certhashes with the
\* code 12 and with 0x12, SHA-256 in the multicodec table.
Digest(n) == [i \in 1..n |-> i]
HostNames == {<<97>>, <<97, 255>>}
Multihashes ==
    {MultihashBytes(code, Digest(n)) :
        code \in {Sha256Code, 18}, n \in {Sha256Len - 1, Sha256Len}}
    \cup {MultihashBytes(Sha256Code, Digest(Sha256Len + 1))}
Components ==
    {Component("Ip4", <<127, 0, 0, 1>>), Component("Ip6", <<0, 1>>),
     Component("Tcp", <<443>>), Component("Udp", <<30333>>),
     Component("Ws", <<>>), Component("Wss", <<>>), Component("Tls", <<>>),
     Component("WebRtcDirect", <<>>), Component("Quic", <<>>)}
    \cup {Component("Dns", h) : h \in HostNames}
    \cup {Component("Dns4", <<97>>), Component("Dns6", <<97, 255>>)}
    \cup {Component("Certhash", mh) : mh \in Multihashes}
\* Components of the multiaddresses with a component too many.
LongComponents ==
    {Component("Ip4", <<127, 0, 0, 1>>), Component("Dns", <<97>>),
     Component("Tcp", <<443>>), Component("Udp", <<30333>>), Component("Ws", <<>>),
     Component("Tls", <<>>), Component("WebRtcDirect", <<>>),
     Component("Certhash", MultihashBytes(Sha256Code, Digest(Sha256Len)))}
Multiaddrs ==
    UNION {[1..n -> Components] : n \in 0..4} \cup [1..5 -> LongComponents]

(***************************************************************************)
(* State after ConnectionPrototype::into_connection.                       *)
(***************************************************************************)
EchoId == LocalId(1)
outgoing_pings == PingId
\* Bytes added to max_response_size for the length prefix of the response.
LengthPrefixAllowance == 64

HistInit ==
    [panic |-> None, evs |-> 0, last |-> None, fwd |-> 0, term |-> {}, old |-> {},
     reap |-> FALSE, reapx |-> FALSE, given |-> {}, twice |-> FALSE, denied |-> FALSE,
     denied_syn |-> None, req |-> [body |-> <<>>, ud |-> None], closing |-> "no",
     owed |-> 0, fed |-> {}, pend |-> <<>>, swept |-> "ok", tick |-> {}, fresh |-> {},
     stepped |-> {}, again |-> {},
     max_response |-> {}]

into_connection(config) ==
    /\ subs = (outgoing_pings :> YNewSub(DPingOut, None, FALSE))
    /\ next_out = 1
    /\ goaway_out = "NotRequired"
    /\ goaway_in = FALSE
    /\ substream_to_process = 0
    /\ next_ping = config.first_out_ping
    /\ ping_payload_randomness = 0
    /\ cfg = config
    /\ pc = "idle"
    /\ rw = [now |-> 0, inc |-> 0, read |-> 0, cap |-> 0, cap0 |-> 0, written |-> 0,
             wake |-> -1]
    /\ todo = {}
    /\ must_continue_looping = FALSE
    /\ ret = NoRet
    /\ clock = 0
    /\ frames_left = config.frames
    /\ echo = <<>>
    /\ hist = HistInit

\* A configuration (Config) together with the environment the connection runs
\* in: the frames the remote sends (their kinds, the substream ids they are
\* about, how many), the write capacities the caller offers, how many
\* substreams the API user opens, with which timeouts, and whether it ever
\* calls deny_new_incoming_substreams, and whether it calls respond_in_request
\* with ids that are not requests waiting for a response (misuse).  mode "echo": the remote sends back
\* the bytes it receives on the first substream opened locally.
FrameKinds == {"Syn", "Data", "Fin", "Rst", "GoAway", "Other", "Bad"}
BaseConfig ==
    [max_inbound_substreams |-> 1, first_out_ping |-> MaxNow + 1,
     ping_interval |-> 1, ping_timeout |-> 0,
     mode |-> "free", kinds |-> FrameKinds, ids |-> {}, caps |-> Capacities,
     frames |-> MaxFrames, opens |-> 0, timeouts |-> {0, MaxNow}, deny |-> FALSE,
     misuse |-> FALSE, max_responses |-> {1}]

\* The remote opens substreams, the API user answers them.
InboundConfigs == {[BaseConfig EXCEPT !.ids = {2}, !.deny = TRUE, !.misuse = TRUE]}
\* The API user opens a request or a notifications substream.
OutboundConfigs ==
    {[BaseConfig EXCEPT !.ids = {LocalId(1)}, !.kinds = FrameKinds \ {"Syn"}, !.opens = 1]}
\* Both at once.
MixedConfigs ==
    {[BaseConfig EXCEPT !.ids = {2, LocalId(1)}, !.opens = 1, !.frames = MaxFrames - 2]}
\* The remote opens substreams against each limit.
LimitConfigs ==
    {[BaseConfig EXCEPT !.ids = PeerIds, !.kinds = {"Syn", "Fin", "Rst"},
                        !.max_inbound_substreams = m] : m \in 0..2}
\* The remote opens, resets and opens again.
ReuseConfigs ==
    {[BaseConfig EXCEPT !.ids = {2}, !.kinds = {"Syn", "Data", "Rst"},
                        !.caps = {2}, !.frames = MaxFrames + 2]}
\* Pings fall due while the remote answers on, closes or resets the ping substream.
PingConfigs ==
    {[BaseConfig EXCEPT !.ids = {PingId}, !.kinds = {"Data", "Fin", "Rst", "Other"},
                        !.ping_interval = i, !.first_out_ping = f] :
        i \in 0..1, f \in 0..(MaxNow + 1)}
\* Graceful close: the remote resets the ping substream and sends its GoAway,
\* the API user denies new substreams; a ping falls due afterwards.
CloseConfigs ==
    {[BaseConfig EXCEPT !.ids = {PingId}, !.kinds = {"Rst", "GoAway", "Other"},
                        !.deny = TRUE, !.first_out_ping = MaxNow]}
\* Requests with the extreme values of max_response_size (the last one: a
\* usize wider than 64 bits).
MaxResponseSizes ==
    {0, 1, 2, 3, U64Max - LengthPrefixAllowance - 1, U64Max - LengthPrefixAllowance,
     U64Max - 1, U64Max, U64Max + 1}
WindowConfigs ==
    {[BaseConfig EXCEPT !.ids = {LocalId(1)}, !.kinds = {"Data"}, !.frames = 1,
                        !.opens = 1, !.timeouts = {MaxNow}, !.caps = {2},
                        !.max_responses = MaxResponseSizes]}
\* The remote echoes the request.
EchoConfigs ==
    {[BaseConfig EXCEPT !.mode = "echo", !.ids = {EchoId}, !.opens = 1,
                        !.timeouts = {MaxNow}]}

Init ==
    \E config \in InboundConfigs \cup OutboundConfigs \cup MixedConfigs \cup LimitConfigs
                     \cup ReuseConfigs \cup PingConfigs \cup CloseConfigs
                     \cup WindowConfigs :
        /\ into_connection(config)
        /\ multiaddr = <<>>
        /\ parsed = NotParsed
        /\ PlatformInit

\* The process aborts (panic, failed assertion) at `site`.
Panic(site) ==
    /\ pc' = "panicked"
    /\ hist' = [hist EXCEPT !.panic = site]
    /\ UNCHANGED <<subs, next_out, goaway_out, goaway_in, substream_to_process,
                   next_ping, ping_payload_randomness, cfg, multiaddr, parsed, platform, rw, todo,
                   must_continue_looping, ret, clock, frames_left, echo>>

(***************************************************************************)
(* SingleStream::read_write, one action per stretch of its body.           *)
(***************************************************************************)
\* The scratchpad between two calls: only the closed write side persists.
\* cap is write_bytes_queueable (-1: None), cap0 its value on entry.
IdleScratchpad(r) ==
    [now |-> 0, inc |-> 0, read |-> 0, cap |-> IF r.cap = -1 THEN -1 ELSE 0,
     cap0 |-> IF r.cap = -1 THEN -1 ELSE 0, written |-> 0, wake |-> -1]

\* The caller invokes read_write with a scratchpad; user_datas() is collected.
ReadWriteCall ==
    /\ pc = "idle"
    /\ \E now \in clock..MaxNow,
          inc \in {i \in Incomings : i <= frames_left},
          cap \in (IF rw.cap = -1 THEN {-1} ELSE cfg.caps) :
        /\ cfg.mode = "echo" => inc <= Len(echo)
        /\ cap = 0 => SumQueued(subs, DOMAIN subs) < MaxQueued
        /\ rw' = [now |-> now, inc |-> inc, read |-> 0, cap |-> cap, cap0 |-> cap,
                  written |-> 0, wake |-> -1]
        /\ clock' = now
        /\ todo' = DOMAIN subs
        /\ pc' = IF DOMAIN subs = {} THEN "ping" ELSE "preflush"
        /\ hist' = [hist EXCEPT !.closing =
                        IF ~(is_empty(subs) /\ goaway_out = "Sent" /\ goaway_in) THEN "no"
                        ELSE IF rw.cap = -1 THEN "closed" ELSE "due"]
        /\ UNCHANGED <<subs, next_out, goaway_out, goaway_in, substream_to_process,
                       next_ping, ping_payload_randomness, cfg, multiaddr, parsed, platform, frames_left, echo,
                       ret, must_continue_looping>>

\* read_write (or respond_in_request) has returned: the caller looks at the
\* result and at its scratchpad, and drops both.
CallerResumes ==
    /\ pc \in {"returned", "responded"}
    /\ pc' = "idle"
    /\ rw' = IdleScratchpad(rw)
    /\ ret' = NoRet
    /\ todo' = {}
    /\ hist' = [hist EXCEPT !.evs = 0, !.last = None, !.closing = "no",
                             !.stepped = {}, !.again = {}]
    /\ UNCHANGED <<subs, next_out, goaway_out, goaway_in, substream_to_process,
                   next_ping, ping_payload_randomness, cfg, multiaddr, parsed, platform,
                   must_continue_looping, clock, frames_left, echo>>

\* Faulty variant: the pre-flush pass goes on after an event.
PreflushReturns_Never(r) == FALSE
\* Whether the pre-flush pass returns to the caller after this substream.
PreflushReturns(r) == r.event.ty # None

\* Faulty variant: the pass comes back to a substream that asks for it.
PreflushRest_Again(ids, id, call_again) == IF call_again THEN ids ELSE ids \ {id}
\* The substreams the pre-flush pass has still to visit after substream id:
\* the for loop over the collected ids goes to the next one (lines 139-145).
PreflushRest(ids, id, call_again) == ids \ {id}

\* One iteration of the pre-flush pass (lines 139-153).
PreflushStep ==
    /\ pc = "preflush"
    /\ \E id \in todo : \E o \in ProcessSteps(subs, id, rw.now) :
        LET r   == process_substream(subs, id, o)
            rw1 == wake_up_after(rw, r.wake)
        IN IF r.panic # None THEN Panic(r.panic)
           ELSE /\ subs' = r.subs
                /\ IF PreflushReturns(r)
                   THEN /\ pc' = "returned"
                        /\ ret' = RetOk(r.event, "preflush")
                        /\ todo' = PreflushRest(todo, id, r.call_again)
                        /\ rw' = rw1
                   ELSE /\ pc' = IF PreflushRest(todo, id, r.call_again) = {}
                                 THEN "ping" ELSE "preflush"
                        /\ ret' = ret
                        /\ todo' = PreflushRest(todo, id, r.call_again)
                        /\ rw' = IF r.call_again THEN wake_up_asap(rw1) ELSE rw1
                /\ hist' = IF r.event.ty # None
                           THEN HistReturn([Stepped(Offered(hist, id, o.read, r.subs),
                                                    id, "preflush", subs[id].present)
                                                EXCEPT !.evs = @ + 1],
                                           r.event, "preflush")
                           ELSE Stepped(Offered(hist, id, o.read, r.subs),
                                        id, "preflush", subs[id].present)
                /\ UNCHANGED <<next_out, goaway_out, goaway_in, substream_to_process,
                               next_ping, ping_payload_randomness, cfg, multiaddr, parsed, platform,
                               must_continue_looping, clock, frames_left, echo>>

\* Substream::queue_ping.
DQueuePing(d, payload, timeout) == [d EXCEPT !.acc = payload, !.tmo = timeout]

\* Faulty variant: a ping is not due at its deadline, only after it.
PingDue_After(now, np) == now > np
\* Faulty variant: a ping is started by every call.
PingDue_Always(now, np) == TRUE
\* Faulty variant: a ping that is overdue is not noticed.
PingDue_Exactly(now, np) == now = np
\* Whether a ping is due (line 156).
PingDue(now, np) == now >= np
\* Faulty variant: the deadline of the next ping forgets the clock.
NextPingAfter_Interval(now, interval) == interval
\* The deadline of the next ping (line 157).
NextPingAfter(now, interval) == now + interval
\* What the ping scheduling does when a ping is due: "queue", "failed"
\* (return PingOutFailed) or "abort" (the unwrap of an absent slot).
PingAction(s) ==
    IF has_substream(s, outgoing_pings)
    THEN IF s[outgoing_pings].present THEN "queue" ELSE "abort"
    ELSE "failed"

\* Faulty variant: no wake-up is registered for the next ping.
PingWakeUp_Never(r, np) == r
\* read_write.wake_up_after(&self.inner.next_ping) (line 175).
PingWakeUp(r, np) == wake_up_after(r, np)

\* Ping scheduling (lines 155-175).
PingStep ==
    /\ pc = "ping"
    /\ IF PingDue(rw.now, next_ping) /\ PingAction(subs) = "abort"
       THEN Panic("ping_unwrap")
       ELSE /\ IF PingDue(rw.now, next_ping)
               THEN IF PingAction(subs) = "queue"
                    THEN /\ next_ping' = NextPingAfter(rw.now, cfg.ping_interval)
                         /\ ping_payload_randomness' = 1 - ping_payload_randomness
                         /\ subs' = [subs EXCEPT ![outgoing_pings].d =
                                        DQueuePing(@, <<ping_payload_randomness>>,
                                                   rw.now + cfg.ping_timeout)]
                         /\ rw' = PingWakeUp(rw, next_ping')
                         /\ pc' = "loop"
                         /\ UNCHANGED <<ret, hist, todo>>
                    ELSE /\ next_ping' = NextPingAfter(rw.now, cfg.ping_interval)
                         /\ pc' = "returned"
                         /\ ret' = RetOk(Event("PingOutFailed", 0, None, FALSE, <<>>), "ping")
                         /\ hist' = [hist EXCEPT !.evs = @ + 1]
                         /\ todo' = {}
                         /\ UNCHANGED <<subs, ping_payload_randomness, rw>>
               ELSE /\ rw' = PingWakeUp(rw, next_ping)
                    /\ pc' = "loop"
                    /\ UNCHANGED <<subs, next_ping, ping_payload_randomness, ret, hist,
                                   todo>>
            /\ UNCHANGED <<next_out, goaway_out, goaway_in, substream_to_process, cfg, multiaddr, parsed, platform,
                           must_continue_looping, clock, frames_left, echo>>

\* Faulty variant: a GoAway that is queued counts as sent.
CloseWriteDue_Queued(s, gout, gin) == is_empty(s) /\ gout # "NotRequired" /\ gin
\* Faulty variant: the write side is never closed.
CloseWriteDue_Never(s, gout, gin) == FALSE
\* Condition under which the write side of the transport is closed (lines 190-193).
CloseWriteDue(s, gout, gin) == is_empty(s) /\ gout = "Sent" /\ gin

\* Faulty variant: the incoming data is decoded although the substream asked
\* to be processed again.
DecodesNext_Always(call_again) == TRUE
\* Whether the loop goes on to decode incoming data after process_substream
\* returned no event (lines 216-222): not if it must be called again.
DecodesNext(call_again) == ~call_again

\* Top of the main loop: close_write if due, then the substream that still has
\* data to process, if any (lines 180-223).
LoopStep ==
    /\ pc = "loop"
    /\ LET rw1 == IF CloseWriteDue(subs, goaway_out, goaway_in) THEN close_write(rw) ELSE rw
       IN IF substream_to_process = 0 \/ ~has_substream(subs, substream_to_process)
          THEN /\ pc' = IF substream_to_process = 0 THEN "decode" ELSE "loop"
               /\ substream_to_process' = 0
               /\ rw' = rw1
               /\ must_continue_looping' = FALSE
               /\ UNCHANGED <<subs, next_out, goaway_out, goaway_in, next_ping,
                              ping_payload_randomness, cfg, multiaddr, parsed, platform, todo, ret, clock,
                              frames_left, echo, hist>>
          ELSE \E o \in ProcessSteps(subs, substream_to_process, rw.now) :
                LET r == process_substream(subs, substream_to_process, o)
                IN IF r.panic # None THEN Panic(r.panic)
                   ELSE /\ subs' = r.subs
                        /\ substream_to_process' =
                              IF r.call_again THEN substream_to_process ELSE 0
                        /\ rw' = wake_up_after(rw1, r.wake)
                        /\ must_continue_looping' = FALSE
                        /\ IF r.event.ty # None
                           THEN /\ pc' = "returned"
                                /\ ret' = RetOk(r.event, "loop")
                                /\ hist' = HistReturn([Stepped(Offered(hist, substream_to_process,
                                                                       o.read, r.subs),
                                                               substream_to_process, "loop",
                                                               subs[substream_to_process].present)
                                                          EXCEPT !.evs = @ + 1],
                                                      r.event, "loop")
                           ELSE /\ pc' = IF DecodesNext(r.call_again) THEN "decode" ELSE "loop"
                                /\ hist' = Stepped(Offered(hist, substream_to_process,
                                                           o.read, r.subs),
                                                   substream_to_process, "loop",
                                                   subs[substream_to_process].present)
                                /\ UNCHANGED ret
                        /\ UNCHANGED <<next_out, goaway_out, goaway_in, next_ping,
                                       ping_payload_randomness, cfg, multiaddr, parsed, platform, todo, clock,
                                       frames_left, echo>>

\* Faulty variant: the GoAway branch returns no event.
GoAwayEvent_None == NoEvent
\* What the GoAway branch returns (line 327).
GoAwayEvent == Event("NewOutboundSubstreamsForbidden", 0, None, TRUE, <<>>)

\* The frame at the head of the decrypted incoming buffer ("Empty": no byte
\* left).  When the scenario has no frame the remote may send in the current
\* state, the frame is one that yields no detail.
EchoFrame ==
    IF has_substream(subs, EchoId) /\ can_receive(subs, EchoId) /\ subs[EchoId].win >= 1
    THEN Frm("Data", EchoId, Head(echo))
    ELSE Frm("Other", 0, 0)
DecodeFrames ==
    IF rw.inc = 0 THEN {Frm("Empty", 0, 0)}
    ELSE IF cfg.mode = "echo" THEN {EchoFrame}
    ELSE LET fs == {f \in YLegalFrames(subs) : f.k \in cfg.kinds /\ f.id \in cfg.ids \cup {0}}
         IN IF fs = {} THEN {Frm("Other", 0, 0)} ELSE fs

\* Faulty variant: one substream too many is let in.
InboundLimitReached_Late(s, max) == num_inbound(s) > max
\* Whether a pending inbound substream is rejected (line 275).
InboundLimitReached(s, max) == num_inbound(s) >= max

\* Faulty variant: the bytes of the frame replace the buffer.
ExtendBuffer_Replaces(buf, bytes) == bytes
\* extend_from_slice on the inbound buffer of the slot (lines 308-317).
ExtendBuffer(buf, bytes) == buf \o bytes

\* Faulty variant: the substream that received data is not marked.
ProcessNext_None(substream_id) == 0
\* substream_to_process after a DataFrame: Some(substream_id) (line 320).
ProcessNext(substream_id) == substream_id

\* The match on yamux_decode.detail (lines 257-334) for frame f.  kind:
\*   "assert_goaway", "data_unwrap" : the process aborts there
\*   "error"  : read_write returns Err
\*   "goaway" : read_write returns NewOutboundSubstreamsForbidden
\*   "reject" : reject_pending_substream and `continue`
\*   "accept", "data", "other" : execution goes on to the flush and the sweep
Dispatch(f, s, gout, gin, max) ==
    LET detail == IF f.k = "Empty" THEN "None" ELSE YDetail(f, s, gout, gin)
        sd     == IF f.k = "Empty" THEN s ELSE YDecoded(f, s)
        R(kind, s2, stp) == [kind |-> kind, subs |-> s2, stp |-> stp]
    IN CASE detail = "Error" -> R("error", s, 0)
         [] detail = "GoAway" -> R("goaway", sd, 0)
         [] detail = "IncomingSubstream" ->
              IF gout # "NotRequired" THEN R("assert_goaway", s, 0)
              ELSE IF InboundLimitReached(sd, max) THEN R("reject", sd, 0)
              ELSE R("accept", YInsert(sd, f.id, YNewSub(DIngoing, None, TRUE)), 0)
         [] detail = "DataFrame" ->
              IF ~sd[f.id].present THEN R("data_unwrap", s, 0)
              ELSE R("data", [sd EXCEPT ![f.id].buf = ExtendBuffer(@, <<f.byte>>)],
                     ProcessNext(f.id))
         [] OTHER -> R("other", sd, 0)

\* Faulty variant: the loop always goes round again.
MustContinue_Always(bytes_read, kind) == TRUE
\* Whether decoding counts as activity (line 251): Yamux read bytes or
\* reported a detail (kind "other" with no byte read is: no detail).
MustContinue(bytes_read, kind) == ~(bytes_read = 0 /\ kind = "other")

\* Faulty variant: one byte more than the capacity is asked for.
FlushCapacity_OneMore(cap) == IF cap = -1 THEN 0 ELSE cap + 1
\* The size passed to extract_next: write_bytes_queueable.unwrap_or(0) (line 344).
FlushCapacity(cap) == IF cap = -1 THEN 0 ELSE cap

\* Bytes of substream id that a flush took out of its write queue.
Flushed(before, after, id) ==
    IF id \in DOMAIN before
    THEN Take(before[id].wq, Len(before[id].wq) - Len(after[id].wq))
    ELSE <<>>

\* Decoding of the incoming data, dispatch, flush of the outgoing data and
\* collection of the dead substreams (lines 234-358).
DecodeStep ==
    /\ pc = "decode"
    /\ IF substream_to_process # 0 THEN Panic("assert_stp")
       ELSE \E f \in DecodeFrames :
        LET n    == IF f.k = "Empty" THEN 0 ELSE 1
            dp   == Dispatch(f, subs, goaway_out, goaway_in, cfg.max_inbound_substreams)
            rwc  == [rw EXCEPT !.inc = @ - n, !.read = @ + n]
            fl   == YFlush(dp.subs, goaway_out, FlushCapacity(rwc.cap))
            rwf  == [rwc EXCEPT !.cap = IF @ = -1 THEN -1 ELSE @ - fl.sent,
                                !.written = @ + fl.sent]
            dead == dead_substreams(fl.subs)
            mcl  == MustContinue(n, dp.kind)
            ech  == IF cfg.mode = "echo" THEN Drop(echo, n) ELSE echo
            born == dp.kind = "accept"
            seen == [(IF dp.kind = "data" THEN Yielded(hist, f.id, <<f.byte>>) ELSE hist)
                     EXCEPT
                       !.last = IF n = 0 THEN @ ELSE f.k,
                       !.fed = IF dp.kind = "data" THEN @ \cup {f.id}
                               ELSE IF born THEN @ \ {f.id} ELSE @,
                       !.denied_syn = IF f.k = "Syn" /\ hist.denied
                                      THEN (IF born THEN "accepted" ELSE "ignored")
                                      ELSE @]
        IN IF dp.kind \in {"assert_goaway", "data_unwrap"} THEN Panic(dp.kind)
           ELSE /\ frames_left' = frames_left - n
                /\ IF dp.kind = "error"
                   THEN /\ pc' = "failed"
                        /\ ret' = RetErr("yamux")
                        /\ hist' = seen
                        /\ UNCHANGED <<subs, goaway_out, goaway_in, substream_to_process,
                                       rw, todo, must_continue_looping, echo>>
                   ELSE IF dp.kind = "goaway"
                   THEN /\ pc' = "returned"
                        /\ goaway_in' = YReceivedGoAway(f, goaway_in)
                        /\ subs' = dp.subs
                        /\ rw' = rwc
                        /\ ret' = RetOk(GoAwayEvent, "goaway")
                        /\ hist' = HistReturn([seen EXCEPT !.evs = @ + 1], ret'.ev, "goaway")
                        /\ echo' = ech
                        /\ UNCHANGED <<goaway_out, substream_to_process, todo,
                                       must_continue_looping>>
                   ELSE IF dp.kind = "reject"
                   THEN /\ pc' = "loop"
                        /\ subs' = dp.subs
                        /\ rw' = rwc
                        /\ echo' = ech
                        /\ goaway_in' = YReceivedGoAway(f, goaway_in)
                        /\ hist' = seen
                        /\ UNCHANGED <<goaway_out, substream_to_process, todo,
                                       must_continue_looping, ret>>
                   ELSE /\ subs' = fl.subs
                        /\ goaway_out' = fl.gout
                        /\ substream_to_process' = dp.stp
                        /\ rw' = rwf
                        /\ echo' = IF cfg.mode = "echo"
                                   THEN ech \o Flushed(dp.subs, fl.subs, EchoId) ELSE ech
                        /\ todo' = dead
                        /\ must_continue_looping' = (mcl /\ dead # {})
                        /\ pc' = IF dead # {} THEN "sweep" ELSE IF mcl THEN "loop" ELSE "returned"
                        /\ ret' = IF dead = {} /\ ~mcl THEN RetOk(NoEvent, "idle") ELSE ret
                        /\ hist' = IF born
                                   THEN [seen EXCEPT
                                           !.given = @ \ {f.id},
                                           !.term = @ \ {f.id}]
                                   ELSE seen
                        /\ goaway_in' = YReceivedGoAway(f, goaway_in)
                /\ UNCHANGED <<next_out, next_ping, ping_payload_randomness, cfg, multiaddr, parsed, platform, clock>>

\* The steps D may take in the sweep: one tick against the scratchpad if the
\* substream is gracefully closed and its slot present, none otherwise.
SweepSteps(s, id, now) ==
    IF YDeath(s[id]) = "ClosedGracefully" /\ s[id].present
    THEN DReadWrite(s[id].d, now, SweepScratchpad.inc, SweepScratchpad.rdClosed,
                    SweepScratchpad.wrClosed)
    ELSE {DNoStep}

\* Faulty variant: a gracefully closed substream leaves Yamux on the first
\* visit of the sweep.
PutBackDue_Never(o) == FALSE
\* The graceful-close tick puts D back iff it reported a next state
\* (lines 450-465).
PutBackDue(o) == o.ph # "Gone"

\* Faulty variant: a reset substream is reported and left in Yamux.
SweepOne_Keeps(s, id, o) ==
    LET slot == s[id]
        pt   == pass_through_substream_event(id, slot.ud, DReset(slot.d))
    IN IF YDeath(slot) = "Reset" /\ slot.present /\ DReset(slot.d).ty # None
       THEN [subs |-> [s EXCEPT ![id].ud = pt.ud], event |-> pt.event,
             progress |-> FALSE, panic |-> pt.panic]
       ELSE [subs |-> YRemove(s, id), event |-> NoEvent, progress |-> TRUE,
             panic |-> None]
\* One iteration of the dead-substream sweep (lines 359-473) on substream id,
\* D having taken step o if it is ticked.  removed: the substream leaves Yamux;
\* progress: must_continue_looping is set.
SweepOne(s, id, o) ==
    LET slot == s[id]
        R(s2, ev, progress, panic) ==
            [subs |-> s2, event |-> ev, progress |-> progress, panic |-> panic]
    IN IF YDeath(slot) = "Reset"
       THEN IF slot.present /\ DReset(slot.d).ty # None
            THEN LET pt == pass_through_substream_event(id, slot.ud, DReset(slot.d))
                 IN R(YRemove(s, id), pt.event, FALSE, pt.panic)
            ELSE R(YRemove(s, id), NoEvent, TRUE, None)
       ELSE IF ~slot.present
       THEN R(YRemove(s, id), NoEvent, TRUE, None)
       ELSE LET pt == IF o.ev.ty = None
                      THEN [event |-> NoEvent, ud |-> slot.ud, panic |-> None]
                      ELSE pass_through_substream_event(id, slot.ud, o.ev)
                abort == IF o.read # 0 \/ o.wr # <<>> THEN "assert_sweep" ELSE pt.panic
            IN IF PutBackDue(o)
               THEN R(YPutSlot(s, id, [ph |-> o.ph, acc |-> o.acc, tmo |-> slot.d.tmo],
                               pt.ud, slot.buf),
                      pt.event, FALSE, abort)
               ELSE R(YRemove(s, id), pt.event, TRUE, abort)

SweepStep ==
    /\ pc = "sweep"
    /\ \E id \in todo : \E o \in SweepSteps(subs, id, rw.now) :
        LET r    == SweepOne(subs, id, o)
            site == IF YDeath(subs[id]) = "Reset" THEN "sweep_reset" ELSE "sweep_closed"
            mcl  == must_continue_looping \/ r.progress
            last == todo = {id}
            tick == YDeath(subs[id]) = "ClosedGracefully" /\ subs[id].present
        IN IF r.panic # None THEN Panic(r.panic)
           ELSE /\ subs' = r.subs
                /\ rw' = IF tick THEN wake_up_after(rw, DWakeUp(subs[id].d, o)) ELSE rw
                /\ IF r.event.ty # None
                   THEN /\ pc' = "returned"
                        /\ ret' = RetOk(r.event, site)
                        /\ todo' = {}
                        /\ must_continue_looping' = FALSE
                        /\ hist' = HistReturn(
                                      [Stepped(Swept(Consumed(hist, id, o.read, r.subs),
                                                     subs, id, o, r.subs),
                                               id, "sweep", tick)
                                          EXCEPT !.evs = @ + 1], r.event, site)
                   ELSE /\ pc' = IF ~last THEN "sweep" ELSE IF mcl THEN "loop" ELSE "returned"
                        /\ ret' = IF last /\ ~mcl THEN RetOk(NoEvent, "idle") ELSE ret
                        /\ todo' = todo \ {id}
                        /\ must_continue_looping' = (mcl /\ ~last)
                        /\ hist' = Stepped(Swept(Consumed(hist, id, o.read, r.subs),
                                                  subs, id, o, r.subs),
                                            id, "sweep", tick)
                /\ UNCHANGED <<next_out, goaway_out, goaway_in, substream_to_process,
                               next_ping, ping_payload_randomness, cfg, multiaddr, parsed, platform, clock,
                               frames_left, echo>>

(***************************************************************************)
(* The other public operations, called between two read_write calls.       *)
(***************************************************************************)
\* u64::try_from(n).unwrap_or(u64::max_value()) (lines 720-721).
U64TryFromOrMax(n) == IF n <= U64Max THEN n ELSE U64Max
\* Faulty variant: plain arithmetic that wraps around.
RequestWindowGrant_Wrapping(max_response_size) ==
    (max_response_size + LengthPrefixAllowance - NEW_SUBSTREAMS_FRAME_SIZE) % (U64Max + 1)
\* Window granted on top of the initial one by add_request (lines 718-724).
RequestWindowGrant(max_response_size) ==
    saturating_sub(saturating_add(U64TryFromOrMax(max_response_size),
                                  LengthPrefixAllowance),
                   NEW_SUBSTREAMS_FRAME_SIZE)

\* Yamux::open_substream fails once a GoAway has been received.
OpenFails(gin) == gin

\* Faulty variant: the slot is created without the user data.
OpenedSlot_None(d, user_data) == YNewSub(d, None, FALSE)
\* The slot handed to Yamux::open_substream: (d, Some(user_data), Vec::new()).
OpenedSlot(d, user_data) == YNewSub(d, user_data, FALSE)

\* A substream opened locally with machine d: shared by add_request and
\* open_notifications_substream.
OpenLocal(d, user_data, grant, max_response_sizes) ==
    IF OpenFails(goaway_in) THEN Panic("open_unwrap")
    ELSE LET id == LocalId(next_out)
         IN /\ subs' = add_remote_window_saturating(
                          YInsert(subs, id, OpenedSlot(d, user_data)), id, grant)
            /\ next_out' = next_out + 1
            /\ hist' = [hist EXCEPT !.reap = @ \/ id \in hist.old,
                                    !.reapx = @ \/ id \in hist.old,
                                    !.given = @ \ {id},
                                    !.max_response = max_response_sizes,
                                    !.req = IF cfg.mode = "echo"
                                            THEN [body |-> Tail(d.acc), ud |-> user_data]
                                            ELSE @]
            /\ UNCHANGED <<goaway_out, goaway_in, substream_to_process, next_ping,
                           ping_payload_randomness, cfg, multiaddr, parsed, platform, pc, rw, todo,
                           must_continue_looping, ret, clock, frames_left, echo>>

add_request ==
    /\ pc = "idle"
    /\ next_out <= cfg.opens
    /\ \E request \in Bodies, timeout \in cfg.timeouts, user_data \in UserDatas,
          max_response_size \in cfg.max_responses :
        OpenLocal(DRequestOut(request, timeout), user_data,
                  RequestWindowGrant(max_response_size), {max_response_size})

open_notifications_substream ==
    /\ pc = "idle"
    /\ next_out <= cfg.opens
    /\ cfg.mode # "echo"
    /\ \E user_data \in UserDatas :
        OpenLocal(DNotificationsOut(<<>>), user_data, 0, {})

\* Frame of the operations that only touch one substream slot.
SlotFrame ==
    UNCHANGED <<next_out, goaway_out, goaway_in, substream_to_process, next_ping,
                ping_payload_randomness, cfg, multiaddr, parsed, platform, pc, rw, todo, must_continue_looping,
                ret, clock, frames_left, echo, hist>>
\* Substreams whose slot is present and whose machine is in phase ph.
InPhase(ph) == {i \in DOMAIN subs : subs[i].present /\ subs[i].d.ph = ph}

\* Faulty variant: accept_inbound forgets the user data.
AcceptedUserData_None(user_data) == None
\* What accept_inbound leaves in the user data of the slot (line 792).
AcceptedUserData(user_data) == user_data

accept_inbound ==
    /\ pc = "idle"
    /\ \E id \in InPhase("InApiWait"), ty \in InboundTys, user_data \in UserDatas :
        /\ subs' = [subs EXCEPT ![id].d.ph = DAcceptedPhase(ty),
                                ![id].ud = AcceptedUserData(user_data)]
        /\ SlotFrame

reject_inbound ==
    /\ pc = "idle"
    /\ \E id \in InPhase("InApiWait") :
        /\ subs' = [subs EXCEPT ![id].d.ph = "InNego"]
        /\ SlotFrame

accept_in_notifications_substream ==
    /\ pc = "idle"
    /\ \E id \in InPhase("NotifInWait") :
        /\ subs' = [subs EXCEPT ![id].d.ph = "NotifIn", ![id].d.acc = <<0>>]
        /\ SlotFrame

reject_in_notifications_substream ==
    /\ pc = "idle"
    /\ \E id \in InPhase("NotifInWait") :
        /\ subs' = [subs EXCEPT ![id].d.ph = "NotifInRefused"]
        /\ SlotFrame

write_notification_unbounded ==
    /\ pc = "idle"
    /\ \E id \in InPhase("NotifOut") :
        /\ subs[id].d.acc = <<>>
        /\ Len(subs[id].wq) < MaxQueued
        /\ subs' = [subs EXCEPT ![id].d.acc = <<0>>]
        /\ SlotFrame

close_notifications_substream ==
    /\ pc = "idle"
    /\ \E id \in InPhase("NotifOut") \cup InPhase("NotifOutDemanded") \cup InPhase("NotifOutNego") :
        /\ subs' = [subs EXCEPT ![id].d.ph = "NotifOutClosed", ![id].d.acc = <<>>]
        /\ SlotFrame

\* A SubstreamId that is not of the single-stream kind.
ForeignId == -1
\* Substream::respond_in_request: the machine afterwards, and whether it was
\* a request waiting for its response (else Err(SubstreamClosed)).
DRespondInRequest(d, response) ==
    IF d.ph = "ReqInApiWait"
    THEN [ok |-> TRUE, d |-> [d EXCEPT !.ph = "ReqInRespond", !.acc = response]]
    ELSE [ok |-> FALSE, d |-> d]
\* What respond_in_request returned for substream id.
Responded(kind, id) == [kind |-> kind, ev |-> [NoEvent EXCEPT !.id = id], site |-> "respond"]
\* The ids the API user passes to respond_in_request.
RespondIds ==
    IF cfg.misuse THEN DOMAIN subs \cup hist.old \cup {ForeignId}
    ELSE InPhase("ReqInApiWait")

\* SingleStream::respond_in_request (lines 967-988).
respond_in_request ==
    /\ pc = "idle"
    /\ \E id \in RespondIds, response \in {<<0>>} :
        IF id = ForeignId \/ ~has_substream(subs, id)
        THEN /\ pc' = "responded"
             /\ ret' = Responded("Err", id)
             /\ UNCHANGED <<subs, next_out, goaway_out, goaway_in, substream_to_process,
                            next_ping, ping_payload_randomness, cfg, multiaddr, parsed, platform, rw, todo,
                            must_continue_looping, clock, frames_left, echo, hist>>
        ELSE IF ~subs[id].present THEN Panic("respond_unwrap")
        ELSE LET r == DRespondInRequest(subs[id].d, response)
             IN /\ pc' = "responded"
                /\ ret' = Responded(IF r.ok THEN "Ok" ELSE "Err", id)
                /\ subs' = [subs EXCEPT ![id].d = r.d]
                /\ UNCHANGED <<next_out, goaway_out, goaway_in, substream_to_process,
                               next_ping, ping_payload_randomness, cfg, multiaddr, parsed, platform, rw, todo,
                               must_continue_looping, clock, frames_left, echo, hist>>

\* Faulty variant: the call does not reach Yamux::send_goaway.
deny_new_incoming_substreams_Forgets ==
    /\ pc = "idle"
    /\ cfg.deny
    /\ ~hist.denied
    /\ hist' = [hist EXCEPT !.denied = TRUE]
    /\ UNCHANGED <<subs, next_out, goaway_out, goaway_in, substream_to_process, next_ping,
                   ping_payload_randomness, cfg, multiaddr, parsed, platform, pc, rw, todo,
                   must_continue_looping, ret, clock, frames_left, echo>>
\* Yamux::send_goaway fails if a GoAway has already been queued or sent.
deny_new_incoming_substreams ==
    /\ pc = "idle"
    /\ cfg.deny
    /\ IF goaway_out # "NotRequired" THEN Panic("goaway_unwrap")
       ELSE /\ goaway_out' = "Queued"
            /\ hist' = [hist EXCEPT !.denied = TRUE]
            /\ UNCHANGED <<subs, next_out, goaway_in, substream_to_process, next_ping,
                           ping_payload_randomness, cfg, multiaddr, parsed, platform, pc, rw, todo,
                           must_continue_looping, ret, clock, frames_left, echo>>

ReadWrite ==
    \/ ReadWriteCall
    \/ PreflushStep
    \/ PingStep
    \/ LoopStep
    \/ DecodeStep
    \/ SweepStep
    \/ CallerResumes

Next ==
    \/ ReadWrite
    \/ add_request
    \/ open_notifications_substream
    \/ accept_inbound
    \/ reject_inbound
    \/ accept_in_notifications_substream
    \/ reject_in_notifications_substream
    \/ write_notification_unbounded
    \/ close_notifications_substream
    \/ respond_in_request
    \/ deny_new_incoming_substreams

Spec == Init /\ [][Next]_vars

(***************************************************************************)
(* The echo scenario: the API user adds one request, the remote sends back *)
(* what it receives.  The caller keeps calling read_write, hands over the  *)
(* bytes that arrived and offers write capacity again and again.           *)
(***************************************************************************)
InitEcho ==
    \E config \in EchoConfigs :
        /\ into_connection(config)
        /\ multiaddr = <<>>
        /\ parsed = NotParsed
        /\ PlatformInit

NextEcho == ReadWrite \/ add_request

\* A call that offers write capacity and hands over what has arrived.
AttentiveCall ==
    /\ ReadWriteCall
    /\ rw'.cap # 0
    /\ echo # <<>> => rw'.inc > 0

SpecEcho ==
    /\ InitEcho
    /\ [][NextEcho]_vars
    /\ SF_vars(AttentiveCall)
    /\ WF_vars(PreflushStep)
    /\ WF_vars(PingStep)
    /\ WF_vars(LoopStep)
    /\ WF_vars(DecodeStep)
    /\ WF_vars(SweepStep)
    /\ WF_vars(CallerResumes)

(***************************************************************************)
(* Address parsing: a multiaddress is handed to multiaddr_to_address.      *)
(***************************************************************************)
InitAddress ==
    /\ into_connection(BaseConfig)
    /\ multiaddr \in Multiaddrs
    /\ parsed = NotParsed
    /\ PlatformInit

ParseAddress ==
    /\ parsed = NotParsed
    /\ parsed' = multiaddr_to_address(multiaddr)
    /\ UNCHANGED <<subs, next_out, goaway_out, goaway_in, substream_to_process,
                   next_ping, ping_payload_randomness, cfg, pc, rw, todo,
                   must_continue_looping, ret, clock, frames_left, echo, hist,
                   multiaddr, platform>>

NextAddress == ParseAddress

SpecAddress == InitAddress /\ [][NextAddress]_vars

\* connect_stream / connect_multistream: the synchronous part, which registers
\* the connection and returns the future.
Connect(kind, write_closable) ==
    /\ fault = "none"
    /\ NetworkState.next_connection_id < MaxConnections
    /\ LET connection_id == NetworkState.next_connection_id IN
        /\ NetworkState' = [NetworkState EXCEPT !.next_connection_id = @ + 1,
                                  !.connections = MapInsert(@, connection_id, NotOpen)]
        /\ futures' = MapInsert(futures, connection_id,
                                [kind |-> kind, write_closable |-> write_closable])
        /\ host' = [host EXCEPT !.kind = MapInsert(@, connection_id, kind),
                                !.conn = MapInsert(@, connection_id, "new")]
    /\ UNCHANGED <<multi_wrappers, stream_wrappers, fault, driver>>

connect_stream == \E write_closable \in BOOLEAN : Connect("connect_stream", write_closable)

connect_multistream == Connect("connect_multistream", FALSE)

\* The Reset arm of both connect futures.
ConnectFutureReset(site, connection_id) ==
    DebugAssert(NetworkState.connections[connection_id].connection_handles_alive = 0, site,
        /\ NetworkState' = [NetworkState EXCEPT !.connections = MapRemove(@, connection_id)]
        /\ futures' = MapRemove(futures, connection_id)
        /\ UNCHANGED <<multi_wrappers, stream_wrappers, host, fault, driver>>)

\* One poll of the future of connect_stream that finds the connection no
\* longer NotOpen (a poll that finds it NotOpen changes nothing).
ConnectStreamPoll(connection_id) ==
    /\ fault = "none"
    /\ connection_id \in DOMAIN futures
    /\ futures[connection_id].kind = "connect_stream"
    /\ LET connection == NetworkState.connections[connection_id] IN
        /\ connection.inner # "NotOpen"
        /\ CASE connection.inner = "MultiStreamWebRtc" ->
                    Abort("connect_stream: unreachable")
             [] connection.inner = "SingleStreamMsNoiseYamux" ->
                    DebugAssert(<<connection_id, NoStreamId>> \in Streams,
                        "connect_stream: debug_assert",
                        /\ stream_wrappers' =
                               MapInsert(stream_wrappers, <<connection_id, NoStreamId>>,
                                         NewStreamWrapper(0, futures[connection_id].write_closable))
                        /\ futures' = MapRemove(futures, connection_id)
                        /\ UNCHANGED <<NetworkState, multi_wrappers, host, fault, driver>>)
             [] OTHER -> ConnectFutureReset("connect_stream: debug_assert_eq", connection_id)

\* One poll of the future of connect_multistream, likewise.
ConnectMultistreamPoll(connection_id) ==
    /\ fault = "none"
    /\ connection_id \in DOMAIN futures
    /\ futures[connection_id].kind = "connect_multistream"
    /\ LET connection == NetworkState.connections[connection_id] IN
        /\ connection.inner # "NotOpen"
        /\ CASE connection.inner = "SingleStreamMsNoiseYamux" ->
                    Abort("connect_multistream: unreachable")
             [] connection.inner = "MultiStreamWebRtc" ->
                    /\ NetworkState' = [NetworkState EXCEPT
                                    !.connections[connection_id].connection_handles_alive = @ + 1]
                    /\ multi_wrappers' = multi_wrappers \cup {connection_id}
                    /\ futures' = MapRemove(futures, connection_id)
                    /\ UNCHANGED <<stream_wrappers, host, fault, driver>>
             [] OTHER -> ConnectFutureReset("connect_multistream: debug_assert_eq",
                                            connection_id)

\* next_substream, when a substream is there to pick up (on a Reset connection
\* it returns None, on an empty queue it waits: neither changes anything).
next_substream(connection_id) ==
    /\ fault = "none"
    /\ connection_id \in multi_wrappers
    /\ IF connection_id \notin Connections
       THEN Abort("next_substream: connections unwrap")
       ELSE LET connection == NetworkState.connections[connection_id]
                picked == Head(connection.opened_substreams_to_pick_up)
            IN  /\ connection.inner = "MultiStreamWebRtc"
                /\ connection.opened_substreams_to_pick_up # <<>>
                /\ NetworkState' = [NetworkState EXCEPT
                        !.connections[connection_id].opened_substreams_to_pick_up = Tail(@),
                        !.connections[connection_id].connection_handles_alive = @ + 1]
                /\ stream_wrappers' =
                        MapInsert(stream_wrappers, <<connection_id, SomeStreamId(picked[1])>>,
                                  NewStreamWrapper(picked[2], FALSE))
                /\ UNCHANGED <<futures, multi_wrappers, host, fault, driver>>

\* One poll of the future of wait_read_write_again (on a stream already seen
\* reset it never returns; while it listens it is not polled).
wait_read_write_again(key) ==
    /\ fault = "none"
    /\ key \in DOMAIN stream_wrappers
    /\ stream_wrappers[key].access = <<>>
    /\ ~stream_wrappers[key].is_reset
    /\ ~stream_wrappers[key].listening
    /\ IF key \notin Streams
       THEN Abort("wait_read_write_again: streams unwrap")
       ELSE LET stream == stream_wrappers[key]
                stream_inner == NetworkState.streams[key]
                shall_return == \/ stream_inner.messages_queue # <<>>
                                \/ stream_inner.writable_bytes_extra # 0
            IN  IF stream_inner.reset
                THEN /\ stream_wrappers' = [stream_wrappers EXCEPT ![key].is_reset = TRUE]
                     /\ UNCHANGED <<NetworkState, futures, multi_wrappers, host, fault,
                                    driver>>
                ELSE /\ NetworkState' = [NetworkState EXCEPT
                            !.streams[key].messages_queue = <<>>,
                            !.streams[key].messages_queue_total_size =
                                IF stream_inner.messages_queue # <<>> THEN 0 ELSE @,
                            !.streams[key].writable_bytes_extra = 0]
                     /\ stream_wrappers' = [stream_wrappers EXCEPT
                            ![key].read_buffer =
                                IF stream_inner.messages_queue # <<>>
                                THEN ExtendedReadBuffer(@, stream_inner.messages_queue)
                                ELSE @,
                            ![key].writable_bytes = @ + stream_inner.writable_bytes_extra,
                            ![key].listening = ~shall_return]
                     /\ UNCHANGED <<futures, multi_wrappers, host, fault, driver>>

\* read_write_access: the ReadWrite handed to the API user.
read_write_access(key) ==
    /\ fault = "none"
    /\ key \in DOMAIN stream_wrappers
    /\ stream_wrappers[key].access = <<>>
    /\ LET stream == stream_wrappers[key] IN
        IF stream.is_reset
        THEN Abort("read_write_access: todo")
        ELSE /\ stream_wrappers' = [stream_wrappers EXCEPT
                    ![key].read_buffer = <<>>,
                    ![key].access =
                        <<[incoming_buffer |-> stream.read_buffer,
                           write_bytes_queueable |->
                               IF ~stream.write_closed THEN <<stream.writable_bytes>>
                               ELSE <<>>]>>]
             /\ UNCHANGED <<NetworkState, futures, multi_wrappers, host, fault, driver>>

\* What the user of a ReadWrite may leave in write_buffers: buffers whose total
\* length is at most write_bytes_queueable (nothing when it is None).
WriteBuffers(write_bytes_queueable) ==
    IF write_bytes_queueable = <<>> THEN {<<>>}
    ELSE LET q == write_bytes_queueable[1] IN
         {<<>>} \cup {<<n>> : n \in 1..q}
                \cup UNION {{<<n, m>> : m \in 1..(q - n)} : n \in 1..q}

\* The writes of ReadWriteAccess::drop, buffer by buffer: <<writable_bytes left,
\* bytes passed to stream_send, assertion held>>.
RECURSIVE SendBuffers(_, _, _, _)
SendBuffers(write_buffers, writable_bytes, sent, reset) ==
    IF write_buffers = <<>> THEN <<writable_bytes, sent, TRUE>>
    ELSE IF ~(Head(write_buffers) <= writable_bytes) THEN <<writable_bytes, sent, FALSE>>
    ELSE SendBuffers(Tail(write_buffers), writable_bytes - Head(write_buffers),
                     IF ~reset THEN sent + Head(write_buffers) ELSE sent, reset)

\* ReadWriteAccess::drop, after the API user consumed all or none of the incoming
\* messages, queued write_buffers and possibly closed the writing side.
ReadWriteAccessDrop(key) ==
    /\ fault = "none"
    /\ key \in DOMAIN stream_wrappers
    /\ stream_wrappers[key].access # <<>>
    /\ LET stream == stream_wrappers[key]
           read_write == stream.access[1]
       IN  \E consumed \in {0, Len(read_write.incoming_buffer)}, close \in BOOLEAN,
              write_buffers \in WriteBuffers(read_write.write_bytes_queueable) :
           LET write_bytes_queueable ==
                   IF close \/ read_write.write_bytes_queueable = <<>> THEN <<>>
                   ELSE <<read_write.write_bytes_queueable[1] - SumSeq(write_buffers)>>
           IN  IF key \notin Streams
               THEN Abort("ReadWriteAccess::drop: streams unwrap")
               ELSE LET stream_inner == NetworkState.streams[key]
                        out == SendBuffers(write_buffers, stream.writable_bytes,
                                           host.sent[key], stream_inner.reset)
                    IN  IF ~out[3]
                        THEN Abort("ReadWriteAccess::drop: assert")
                        ELSE /\ stream_wrappers' = [stream_wrappers EXCEPT
                                   ![key].read_buffer =
                                       SubSeq(read_write.incoming_buffer, consumed + 1,
                                              Len(read_write.incoming_buffer)),
                                   ![key].writable_bytes = out[1],
                                   ![key].write_closed = @ \/ write_bytes_queueable = <<>>,
                                   ![key].access = <<>>]
                             /\ host' = [host EXCEPT !.sent[key] = out[2]]
                             /\ UNCHANGED <<NetworkState, futures, multi_wrappers, fault,
                                            driver>>

\* bindings::reset_connection: the host forgets the connection and its streams.
HostAfterResetConnection(h, connection_id) ==
    [h EXCEPT !.conn[connection_id] = "gone",
              !.open = {k \in @ : k[1] # connection_id}]

\* StreamWrapper::drop.
StreamWrapperDrop(key) ==
    /\ fault = "none"
    /\ key \in DOMAIN stream_wrappers
    /\ stream_wrappers[key].access = <<>>
    /\ LET connection_id == key[1] IN
        IF connection_id \notin Connections
        THEN Abort("StreamWrapper::drop: connections unwrap")
        ELSE IF key \notin Streams
        THEN Abort("StreamWrapper::drop: streams unwrap")
        ELSE LET connection == NetworkState.connections[connection_id]
                 removed_stream == NetworkState.streams[key]
                 handles == connection.connection_handles_alive - 1
                 remove_connection ==
                     IF connection.inner = "SingleStreamMsNoiseYamux" THEN TRUE
                     ELSE handles = 0
                 kept == [NetworkState.connections EXCEPT
                             ![connection_id].connection_handles_alive =
                                 IF connection.inner = "SingleStreamMsNoiseYamux" THEN @
                                 ELSE handles]
                 host1 == IF connection.inner = "MultiStreamWebRtc" /\ ~removed_stream.reset
                          THEN [host EXCEPT !.open = @ \ {key}]
                          ELSE host
                 host2 == IF \/ connection.inner = "SingleStreamMsNoiseYamux"
                                /\ ~removed_stream.reset
                             \/ connection.inner = "MultiStreamWebRtc" /\ remove_connection
                          THEN HostAfterResetConnection(host1, connection_id)
                          ELSE host1
             IN  IF connection.inner = "NotOpen"
                 THEN Abort("StreamWrapper::drop: unreachable")
                 ELSE IF connection.inner # "SingleStreamMsNoiseYamux" /\ handles < 0
                 THEN Abort("StreamWrapper::drop: subtract with overflow")
                 ELSE DebugAssert(
                        connection.inner = "SingleStreamMsNoiseYamux" => key[2] = NoStreamId,
                        "StreamWrapper::drop: debug_assert",
                        /\ NetworkState' = [NetworkState EXCEPT
                              !.streams = MapRemove(@, key),
                              !.connections = IF remove_connection
                                              THEN MapRemove(kept, connection_id)
                                              ELSE kept]
                        /\ stream_wrappers' = MapRemove(stream_wrappers, key)
                        /\ host' = host2
                        /\ UNCHANGED <<futures, multi_wrappers, fault, driver>>)

\* MultiStreamWrapper::drop.
MultiStreamWrapperDrop(connection_id) ==
    /\ fault = "none"
    /\ connection_id \in multi_wrappers
    /\ IF connection_id \notin Connections
       THEN Abort("MultiStreamWrapper::drop: connections unwrap")
       ELSE LET connection == NetworkState.connections[connection_id]
                outcome == MultiStreamDropOutcome(connection)
                kept == [NetworkState.connections EXCEPT
                            ![connection_id].connection_handles_alive =
                                IF connection.inner = "MultiStreamWebRtc" THEN @ - 1 ELSE @]
            IN  IF connection.inner \in {"NotOpen", "SingleStreamMsNoiseYamux"}
                THEN Abort("MultiStreamWrapper::drop: unreachable")
                ELSE IF connection.inner = "MultiStreamWebRtc"
                        /\ connection.connection_handles_alive = 0
                THEN Abort("MultiStreamWrapper::drop: subtract with overflow")
                ELSE /\ NetworkState' = [NetworkState EXCEPT
                            !.connections = IF outcome[1] THEN MapRemove(kept, connection_id)
                                            ELSE kept]
                     /\ multi_wrappers' = multi_wrappers \ {connection_id}
                     /\ host' = IF outcome[2]
                                THEN HostAfterResetConnection(host, connection_id)
                                ELSE host
                     /\ UNCHANGED <<futures, stream_wrappers, fault, driver>>

\* The stream a host callback about (connection_id, stream_id) is about.
ActualStreamId(connection, stream_id) ==
    IF connection.inner = "MultiStreamWebRtc" THEN SomeStreamId(stream_id) ELSE NoStreamId

\* The host may still call back about a connection: it has neither reported
\* its reset nor been told to reset it.
HostAlive(connection_id) ==
    /\ connection_id \in DOMAIN host.conn
    /\ host.conn[connection_id] # "gone"

connection_open_single_stream(connection_id, initial_writable_bytes) ==
    /\ fault = "none"
    /\ HostAlive(connection_id)
    /\ host.conn[connection_id] = "new"
    /\ host.kind[connection_id] = "connect_stream"
    /\ IF connection_id \notin Connections
       THEN Abort("connection_open_single_stream: connections unwrap")
       ELSE DebugAssert(
              /\ NetworkState.connections[connection_id].inner = "NotOpen"
              /\ <<connection_id, NoStreamId>> \notin Streams,
              "connection_open_single_stream: debug_assert",
              /\ NetworkState' = [NetworkState EXCEPT
                    !.connections[connection_id] = SingleStreamMsNoiseYamux,
                    !.streams = MapInsert(@, <<connection_id, NoStreamId>>,
                                          NewStream(initial_writable_bytes))]
              /\ host' = [host EXCEPT
                    !.conn[connection_id] = "open",
                    !.open = @ \cup {<<connection_id, NoStreamId>>},
                    !.sent = MapInsert(@, <<connection_id, NoStreamId>>, 0),
                    !.granted = MapInsert(@, <<connection_id, NoStreamId>>,
                                          initial_writable_bytes)]
              /\ UNCHANGED <<futures, multi_wrappers, stream_wrappers, fault, driver>>)

connection_open_multi_stream(connection_id) ==
    /\ fault = "none"
    /\ HostAlive(connection_id)
    /\ host.conn[connection_id] = "new"
    /\ host.kind[connection_id] = "connect_multistream"
    /\ IF connection_id \notin Connections
       THEN Abort("connection_open_multi_stream: connections unwrap")
       ELSE DebugAssert(
              NetworkState.connections[connection_id].inner = "NotOpen",
              "connection_open_multi_stream: debug_assert",
              /\ NetworkState' = [NetworkState EXCEPT
                    !.connections[connection_id] = MultiStreamWebRtc(<<>>, 0)]
              /\ host' = [host EXCEPT !.conn[connection_id] = "open"]
              /\ UNCHANGED <<futures, multi_wrappers, stream_wrappers, fault, driver>>)

stream_writable_bytes(connection_id, stream_id, bytes) ==
    /\ fault = "none"
    /\ HostAlive(connection_id)
    /\ host.conn[connection_id] = "open"
    /\ host.credits < MaxCredits
    /\ IF connection_id \notin Connections
       THEN Abort("stream_writable_bytes: connections unwrap")
       ELSE LET connection == NetworkState.connections[connection_id]
                key == <<connection_id, ActualStreamId(connection, stream_id)>>
            IN  /\ key \in host.open
                /\ IF connection.inner \in {"Reset", "NotOpen"}
                   THEN Abort("stream_writable_bytes: unreachable")
                   ELSE IF key \notin Streams
                   THEN Abort("stream_writable_bytes: streams unwrap")
                   ELSE DebugAssert(
                          ~NetworkState.streams[key].reset,
                          "stream_writable_bytes: debug_assert",
                          /\ NetworkState' = [NetworkState EXCEPT
                                !.streams[key].writable_bytes_extra = @ + bytes]
                          /\ stream_wrappers' = Notified(stream_wrappers, {key})
                          /\ host' = [host EXCEPT !.credits = @ + 1,
                                                  !.granted[key] = @ + bytes]
                          /\ UNCHANGED <<futures, multi_wrappers, fault, driver>>)

stream_message(connection_id, stream_id, message) ==
    /\ fault = "none"
    /\ HostAlive(connection_id)
    /\ host.conn[connection_id] = "open"
    /\ host.messages < MaxMessages
    /\ IF connection_id \notin Connections
       THEN Abort("stream_message: connections unwrap")
       ELSE LET connection == NetworkState.connections[connection_id]
                key == <<connection_id, ActualStreamId(connection, stream_id)>>
            IN  /\ key \in host.open
                /\ IF connection.inner \in {"Reset", "NotOpen"}
                   THEN Abort("stream_message: unreachable")
                   ELSE IF key \notin Streams
                   THEN Abort("stream_message: streams unwrap")
                   ELSE DebugAssert(
                          ~NetworkState.streams[key].reset,
                          "stream_message: debug_assert",
                          LET stream == NetworkState.streams[key]
                              queued == MessageQueued(stream.messages_queue_total_size,
                                                      message)
                          IN  /\ NetworkState' =
                                    IF queued
                                    THEN [NetworkState EXCEPT
                                            !.streams[key].messages_queue_total_size =
                                                @ + message.len,
                                            !.streams[key].messages_queue =
                                                Append(@, message)]
                                    ELSE NetworkState
                              /\ stream_wrappers' =
                                    IF queued THEN Notified(stream_wrappers, {key})
                                    ELSE stream_wrappers
                              /\ host' = [host EXCEPT
                                    !.messages = @ + 1,
                                    !.refused = IF message.len # 0 /\ ~queued
                                                THEN @ + 1 ELSE @]
                              /\ UNCHANGED <<futures, multi_wrappers, fault, driver>>)

connection_stream_opened(connection_id, stream_id, initial_writable_bytes) ==
    /\ fault = "none"
    /\ HostAlive(connection_id)
    /\ host.conn[connection_id] = "open"
    /\ host.kind[connection_id] = "connect_multistream"
    /\ <<connection_id, SomeStreamId(stream_id)>> \notin DOMAIN host.granted
    /\ IF connection_id \notin Connections
       THEN Abort("connection_stream_opened: connections unwrap")
       ELSE LET connection == NetworkState.connections[connection_id]
                key == <<connection_id, SomeStreamId(stream_id)>>
            IN  IF connection.inner # "MultiStreamWebRtc" \/ key \in Streams
                THEN Abort("connection_stream_opened: panic")
                ELSE /\ NetworkState' = [NetworkState EXCEPT
                           !.streams = MapInsert(@, key, NewStream(initial_writable_bytes)),
                           !.connections[connection_id].opened_substreams_to_pick_up =
                               Append(@, <<stream_id, initial_writable_bytes>>)]
                     /\ host' = [host EXCEPT
                           !.open = @ \cup {key},
                           !.sent = MapInsert(@, key, 0),
                           !.granted = MapInsert(@, key, initial_writable_bytes)]
                     /\ UNCHANGED <<futures, multi_wrappers, stream_wrappers, fault,
                                    driver>>

connection_reset(connection_id) ==
    /\ fault = "none"
    /\ HostAlive(connection_id)
    /\ IF connection_id \notin Connections
       THEN Abort("connection_reset: connections unwrap")
       ELSE LET connection == NetworkState.connections[connection_id] IN
            IF connection.inner = "Reset"
            THEN Abort("connection_reset: unreachable")
            ELSE /\ NetworkState' = [NetworkState EXCEPT
                       !.connections[connection_id] =
                           ConnectionReset(HandlesAtReset(connection)),
                       !.streams = [k \in DOMAIN @ |->
                                       IF k[1] = connection_id
                                       THEN [@[k] EXCEPT !.reset = TRUE] ELSE @[k]]]
                 /\ stream_wrappers' = Notified(stream_wrappers, StreamsOf(connection_id))
                 /\ host' = HostAfterResetConnection(host, connection_id)
                 /\ UNCHANGED <<futures, multi_wrappers, fault, driver>>

stream_reset(connection_id, stream_id) ==
    /\ fault = "none"
    /\ HostAlive(connection_id)
    /\ <<connection_id, SomeStreamId(stream_id)>> \in host.open
    /\ LET key == <<connection_id, SomeStreamId(stream_id)>> IN
        IF key \notin Streams
        THEN Abort("stream_reset: streams unwrap")
        ELSE /\ NetworkState' = [NetworkState EXCEPT !.streams[key].reset = TRUE]
             /\ stream_wrappers' = Notified(stream_wrappers, {key})
             /\ host' = [host EXCEPT !.open = @ \ {key}]
             /\ UNCHANGED <<futures, multi_wrappers, fault, driver>>

ConnectionIds == 0..(MaxConnections - 1)
StreamIds == 0..(MaxSubstreams - 1)
StreamKeys == {<<c, NoStreamId>> : c \in ConnectionIds}
                  \cup {<<c, SomeStreamId(n)>> : c \in ConnectionIds, n \in StreamIds}

InitPlatform ==
    /\ into_connection(BaseConfig)
    /\ multiaddr = <<>>
    /\ parsed = NotParsed
    /\ PlatformInit

NextPlatform ==
    \/ connect_stream
    \/ connect_multistream
    \/ \E connection_id \in ConnectionIds :
        \/ ConnectStreamPoll(connection_id)
        \/ ConnectMultistreamPoll(connection_id)
        \/ next_substream(connection_id)
        \/ MultiStreamWrapperDrop(connection_id)
        \/ connection_open_multi_stream(connection_id)
        \/ connection_reset(connection_id)
        \/ \E initial_writable_bytes \in InitialWritableBytes :
            \/ connection_open_single_stream(connection_id, initial_writable_bytes)
            \/ \E stream_id \in StreamIds :
                connection_stream_opened(connection_id, stream_id, initial_writable_bytes)
        \/ \E stream_id \in StreamIds :
            \/ stream_reset(connection_id, stream_id)
            \/ \E bytes \in WritableBytesCredits :
                stream_writable_bytes(connection_id, stream_id, bytes)
            \/ \E message \in HostMessages :
                stream_message(connection_id, stream_id, message)
    \/ \E key \in StreamKeys :
        \/ wait_read_write_again(key)
        \/ read_write_access(key)
        \/ ReadWriteAccessDrop(key)
        \/ StreamWrapperDrop(key)

SpecPlatform == InitPlatform /\ [][NextPlatform]_vars

\* A stream in use: connection 0 was opened as a single-stream connection and
\* its connect future has resolved, or it was opened as a multi-stream
\* connection, its connect future has resolved, and the host opened substream 0,
\* which next_substream has handed out.
OpenedStream(kind, key, handles, initial_writable_bytes, writable_bytes, write_closable) ==
    /\ NetworkState =
          [next_connection_id |-> 1,
           connections |-> MapInsert(<<>>, 0,
                               IF kind = "connect_stream" THEN SingleStreamMsNoiseYamux
                               ELSE MultiStreamWebRtc(<<>>, handles)),
           streams |-> MapInsert(<<>>, key, NewStream(initial_writable_bytes))]
    /\ futures = <<>>
    /\ multi_wrappers = IF kind = "connect_stream" THEN {} ELSE {0}
    /\ stream_wrappers =
          MapInsert(<<>>, key, NewStreamWrapper(writable_bytes, write_closable))
    /\ host = [kind |-> MapInsert(<<>>, 0, kind), conn |-> MapInsert(<<>>, 0, "open"),
               open |-> {key}, sent |-> MapInsert(<<>>, key, 0),
               granted |-> MapInsert(<<>>, key, initial_writable_bytes),
               messages |-> 0, credits |-> 0, refused |-> 0]
    /\ fault = "none"

StreamInUse ==
    \E initial_writable_bytes \in InitialWritableBytes :
        \/ \E write_closable \in BOOLEAN :
              OpenedStream("connect_stream", <<0, NoStreamId>>, 0,
                           initial_writable_bytes, 0, write_closable)
        \/ OpenedStream("connect_multistream", <<0, SomeStreamId(0)>>, 2,
                        initial_writable_bytes, initial_writable_bytes, FALSE)

InitStream ==
    /\ into_connection(BaseConfig)
    /\ multiaddr = <<>>
    /\ parsed = NotParsed
    /\ StreamInUse

\* The host and the API user act on the streams of connection 0.
NextStream ==
    \/ connection_reset(0)
    \/ \E stream_id \in StreamIds :
        \/ stream_reset(0, stream_id)
        \/ \E bytes \in WritableBytesCredits : stream_writable_bytes(0, stream_id, bytes)
        \/ \E message \in HostMessages : stream_message(0, stream_id, message)
    \/ \E key \in StreamKeys :
        \/ wait_read_write_again(key)
        \/ read_write_access(key)
        \/ ReadWriteAccessDrop(key)

SpecStream == InitStream /\ [][NextStream]_vars

(***************************************************************************)
(* Properties.                                                             *)
(***************************************************************************)
\* C1: read_write returns at most one event per invocation, and at the first
\* one: when process_substream yields an event during the pre-flush pass,
\* read_write returns that event at once; the substreams not yet visited are
\* left as they are, next_ping does not change and no byte of the incoming
\* buffer is consumed.
C1_PreflushReturnsFirstEvent ==
    /\ [](hist.evs <= 1)
    /\ [][pc = "preflush" /\ hist'.evs # hist.evs =>
            /\ pc' = "returned"
            /\ ret'.kind = "Ok"
            /\ ret'.ev.ty # None
            /\ next_ping' = next_ping
            /\ rw'.read = 0
            /\ rw'.inc = rw.inc
            /\ frames_left' = frames_left
            /\ Cardinality(todo') = Cardinality(todo) - 1
            /\ \A j \in todo' : j \in todo /\ subs'[j] = subs[j]]_vars
\* The pre-flush pass has returned an event while substreams were still to be
\* visited and incoming bytes were waiting.
C1_Witness == pc = "returned" /\ ret.site = "preflush" /\ todo # {} /\ rw.inc > 0

\* C2: a request r added with add_request with user data U, echoed by the
\* remote, without reset and without timeout, leads to a returned Response
\* event for its substream id that carries r and U, and no second event ever
\* hands back the user data of that substream (hist.twice, once set, stays).
C2_EchoedRequestAnswered ==
    LET answer == Event("Response", EchoId, hist.req.ud, TRUE, hist.req.body)
    IN ((hist.req.ud # None /\ EchoId \notin hist.given) \/ hist.twice)
          ~> (pc = "returned" /\ ret.ev = answer /\ ~hist.twice)
\* The response <<1>> to the request <<1>> has come back with user data U2.
C2_Witness ==
    /\ cfg.mode = "echo"
    /\ pc = "returned"
    /\ ret.ev = Event("Response", EchoId, "U2", TRUE, <<1>>)

\* C3 as stated: once the terminal event of substream id X has been returned,
\* no later event is tagged with X and no later add_request or
\* open_notifications_substream returns X.
C3_Original == ~hist.reap
\* C3: once the terminal event of substream id X has been returned, no later
\* event is tagged with X and no later add_request or
\* open_notifications_substream returns X, unless the remote has opened a new
\* substream with the id X in between.
C3_NoReappearanceUnlessReopened == ~hist.reapx
\* An event was tagged with the id of an earlier substream, reopened by the remote.
C3_Witness == hist.reap /\ pc = "returned" /\ ret.ev.id \in hist.old \ hist.term

\* C4: for every substream at most one returned event carries its user data;
\* that event moves the user data out of the slot, and the take().unwrap() of
\* event translation never finds the user data absent.
C4_UserDataHandedBackOnce ==
    /\ ~hist.twice
    /\ hist.panic # "take_unwrap"
    /\ pc = "returned" /\ CarriesUserData(ret.ev) =>
          /\ ret.ev.ud \in UserDatas
          /\ has_substream(subs, ret.ev.id) => subs[ret.ev.id].ud = None
\* The user data given to accept_inbound has come back in InboundAcceptedCancel.
C4_Witness ==
    /\ pc = "returned"
    /\ ret.ev.ty = "InboundAcceptedCancel"
    /\ ret.ev.ud \in UserDatas

\* C5: NewOutboundSubstreamsForbidden is returned exactly once if a GoAway
\* frame has been received, by the call that decodes it, and never otherwise.
C5_GoAwayReportedOnce ==
    /\ [](hist.fwd = IF goaway_in THEN 1 ELSE 0)
    /\ [][goaway_in' # goaway_in =>
            pc' = "returned" /\ ret'.ev.ty = "NewOutboundSubstreamsForbidden"]_vars
\* A GoAway was received and reported, and the connection went on.
C5_Witness == goaway_in /\ hist.fwd = 1 /\ pc = "idle" /\ frames_left < cfg.frames - 1

\* A call of add_request or open_notifications_substream.
OpenStep ==
    /\ pc = "idle"
    /\ \/ next_out' = next_out + 1
       \/ hist.panic = None /\ hist'.panic = "open_unwrap"
C7_DeniedInboundNeverAccepted ==
    /\ hist.panic # "assert_goaway"
    /\ hist.denied_syn # "accepted"
\* The remote asked for a substream after the denial; it went unanswered.
C7_Witness == hist.denied_syn = "ignored" /\ goaway_out # "NotRequired"

\* C8: on an IncomingSubstream detail the driver rejects the substream iff
\* num_inbound >= max_inbound_substreams and otherwise accepts it with a
\* fresh Ingoing machine, no user data and an empty buffer; neither branch
\* returns; Yamux never holds more than max_inbound_substreams inbound
\* substreams.
C8_InboundLimit ==
    /\ [](num_inbound(subs) <= cfg.max_inbound_substreams)
    /\ [][(/\ pc = "decode"
           /\ frames_left' < frames_left
           /\ hist'.last = "Syn"
           /\ goaway_out = "NotRequired") =>
            IF num_inbound(subs) >= cfg.max_inbound_substreams
            THEN subs' = subs /\ pc' = "loop" /\ ret' = ret
            ELSE /\ \E id \in PeerIds \ DOMAIN subs :
                      /\ DOMAIN subs' = DOMAIN subs \cup {id}
                      /\ subs'[id] = YNewSub(DIngoing, None, TRUE)
                 /\ pc' \in {"loop", "sweep"}
                 /\ ret' = ret]_vars
\* With a limit of one, substream 2 is in and the request for 4 was rejected.
C8_Witness ==
    /\ cfg.max_inbound_substreams = 1
    /\ pc = "loop"
    /\ hist.last = "Syn"
    /\ DOMAIN subs = {PingId, 2}
    /\ frames_left = cfg.frames - 2
    /\ cfg.kinds = {"Syn", "Fin", "Rst"}

\* C9: once the ping substream is no longer in Yamux, a read_write call that
\* reaches the ping scheduling with now >= next_ping returns PingOutFailed at
\* once, sets next_ping to now + ping_interval, draws no payload and leaves
\* Yamux alone.
C9_PingFailsWithoutSubstream ==
    [][(/\ pc = "ping"
        /\ ~has_substream(subs, outgoing_pings)
        /\ rw.now >= next_ping) =>
         /\ pc' = "returned"
         /\ ret' = RetOk(Event("PingOutFailed", 0, None, FALSE, <<>>), "ping")
         /\ next_ping' = rw.now + cfg.ping_interval
         /\ ping_payload_randomness' = ping_payload_randomness
         /\ subs' = subs
         /\ goaway_out' = goaway_out
         /\ goaway_in' = goaway_in
         /\ rw' = rw]_vars
\* A ping fell due after the remote had reset the ping substream.
C9_Witness == pc = "returned" /\ ret.site = "ping" /\ ~has_substream(subs, outgoing_pings)

\* C10: next_ping never decreases, and each time a ping fires (now >=
\* next_ping at the ping scheduling) next_ping becomes now + ping_interval.
C10_NextPingMonotonic ==
    /\ [][next_ping' >= next_ping]_vars
    /\ [][pc = "ping" /\ rw.now >= next_ping /\ pc' # "panicked" =>
            next_ping' = rw.now + cfg.ping_interval]_vars
\* A second ping has fired, later than the first.
C10_Witness ==
    /\ pc = "loop"
    /\ ping_payload_randomness = 0
    /\ has_substream(subs, outgoing_pings)
    /\ subs[outgoing_pings].d.acc # <<>>
    /\ next_ping = rw.now + cfg.ping_interval
    /\ next_ping > cfg.first_out_ping + cfg.ping_interval

\* C11 as stated: after every read_write call that returns Ok, with or
\* without an event, next_ping >= the `now` of the scratchpad of that call.
C11_Original == (pc = "returned" /\ ret.kind = "Ok") => next_ping >= rw.now
\* C11: after every read_write call that returns Ok from the ping scheduling
\* or from the main loop (that is, not from the pre-flush pass, which returns
\* before the ping scheduling), next_ping >= the `now` of that call.
C11_NextPingNotBehindNow ==
    (pc = "returned" /\ ret.kind = "Ok" /\ ret.site # "preflush") => next_ping >= rw.now
\* A call made after the deadline has fired the ping and returned idle.
C11_Witness ==
    /\ pc = "returned"
    /\ ret.site = "idle"
    /\ rw.now > cfg.first_out_ping
    /\ next_ping = rw.now + cfg.ping_interval
    /\ ping_payload_randomness = 1

\* C12 as stated: a read_write call made after a GoAway has been both sent
\* and received, with no substream left in Yamux, returns with the write side
\* of the scratchpad closed.
C12_Original == (pc \in {"returned", "failed"} /\ hist.closing # "no") => rw.cap = -1
\* C12: such a call returns with the write side of the scratchpad closed,
\* unless a ping is due (now >= next_ping): it then returns PingOutFailed
\* from the ping scheduling, before the main loop closes the write side.
C12_CloseWriteUnlessPingDue ==
    /\ (pc \in {"returned", "failed"} /\ hist.closing # "no" /\ ret.site # "ping") =>
          rw.cap = -1
    /\ (pc = "returned" /\ hist.closing # "no" /\ ret.site = "ping") =>
          ret.ev.ty = "PingOutFailed"
\* The call that found the connection gracefully closed has closed the write side.
C12_Witness ==
    /\ pc = "returned"
    /\ hist.closing = "due"
    /\ ret.site = "idle"
    /\ rw.cap = -1

\* C13 as stated: once both GoAways are exchanged, the last substream is
\* removed and the write side is closed, every later read_write call without
\* new inbound bytes returns (self, None) and appends no outbound byte.
C13_Original ==
    (pc \in {"returned", "failed"} /\ hist.closing = "closed" /\ rw.read = 0 /\ rw.inc = 0) =>
        (ret.kind = "Ok" /\ ret.ev.ty = None /\ rw.written = 0)
\* C13: in that situation a call without new inbound bytes appends no
\* outbound byte and returns (self, None), except that a call made with
\* now >= next_ping returns PingOutFailed; it returns PingOutFailed only then.
C13_QuiescentUnlessPingDue ==
    /\ []((pc \in {"returned", "failed"} /\ hist.closing = "closed"
                /\ rw.read = 0 /\ rw.inc = 0) =>
            /\ ret.kind = "Ok"
            /\ rw.written = 0
            /\ ret.site # "ping" => ret.ev.ty = None)
    /\ [][(pc = "ping" /\ hist.closing = "closed") =>
            IF rw.now >= next_ping
            THEN pc' = "returned" /\ ret'.ev.ty = "PingOutFailed" /\ subs' = subs
            ELSE pc' = "loop"]_vars
\* A call on the quiescent connection has returned (self, None).
C13_Witness ==
    /\ pc = "returned"
    /\ hist.closing = "closed"
    /\ ret.site = "idle"
    /\ ret.ev.ty = None
    /\ rw.written = 0

\* Bytes held in the inbound buffers of the slots.
RECURSIVE SumBuffered(_, _)
SumBuffered(s, ids) ==
    IF ids = {} THEN 0
    ELSE LET id == CHOOSE i \in ids : TRUE
         IN Len(s[id].buf) + SumBuffered(s, ids \ {id})
\* The substream has terminated: it left Yamux or its machine returned no
\* next state.
Terminated(s, id) == ~has_substream(s, id) \/ ~s[id].present
\* Bytes yielded by DataFrames that no machine has read and no buffer holds.
Discarded == hist.owed - SumBuffered(subs, DOMAIN subs)

\* C14 as stated: once every substream that received data has terminated,
\* the bytes read by the D-machines add up to the bytes yielded by Yamux
\* DataFrames, also for substreams reset or closed with a non-empty buffer.
C14_Original == (\A id \in hist.fed : Terminated(subs, id)) => hist.owed = 0
\* C14: the bytes read by the D-machines never exceed the bytes yielded by
\* DataFrames; the bytes not read are those still held in the inbound buffers
\* plus those discarded, and bytes are discarded only when a substream whose
\* buffer is not empty terminates or is removed.
C14_BytesReadOrBufferedOrDiscarded ==
    /\ [](Discarded >= 0)
    /\ [][Discarded' # Discarded =>
            /\ Discarded' > Discarded
            /\ \E id \in DOMAIN subs :
                  /\ subs[id].buf # <<>>
                  /\ Terminated(subs', id)]_vars
\* A substream was removed with an unread byte in its buffer.
C14_Witness ==
    /\ Discarded = 1
    /\ hist.fed # {}
    /\ \A id \in hist.fed : ~has_substream(subs, id)

\* The substream is an inbound request waiting for its response.
LiveRequest(s, id) == has_substream(s, id) /\ s[id].present /\ s[id].d.ph = "ReqInApiWait"
\* C15: respond_in_request never aborts; for every id that is not a live
\* inbound request (foreign kind, absent from Yamux, or still in Yamux with a
\* terminated machine awaiting the sweep) it returns Err(SubstreamClosed) and
\* leaves the connection unchanged.
C15_RespondOnDeadRequestIsTypedError ==
    /\ [](hist.panic # "respond_unwrap")
    /\ [][pc' = "responded" =>
            IF LiveRequest(subs, ret'.ev.id)
            THEN ret'.kind = "Ok"
            ELSE ret'.kind = "Err" /\ subs' = subs]_vars

\* read_write is running.
Running == pc \in {"preflush", "ping", "loop", "decode", "sweep"}
\* The body of read_write can take its next step: the substream it is about
\* to process has a step to take, the decoder has a frame (or none) to look at.
CanStep ==
    CASE pc = "preflush" ->
           todo # {} /\ \A id \in todo : ProcessSteps(subs, id, rw.now) # {}
      [] pc = "loop" ->
           (substream_to_process # 0 /\ has_substream(subs, substream_to_process)) =>
               ProcessSteps(subs, substream_to_process, rw.now) # {}
      [] pc = "decode" -> DecodeFrames # {}
      [] pc = "sweep" ->
           todo # {} /\ \A id \in todo :
               has_substream(subs, id) /\ SweepSteps(subs, id, rw.now) # {}
      [] OTHER -> TRUE
\* What is left to do for the substream the main loop must process first:
\* 0 if there is none, else more the more bytes its buffer holds, plus one if
\* its machine still has something to write without reading.
ProcessMeasure ==
    IF substream_to_process = 0 THEN 0
    ELSE IF ~has_substream(subs, substream_to_process) THEN 1
    ELSE LET id == substream_to_process
             writes == \E o \in ProcessSteps(subs, id, rw.now) :
                          o.read = 0 /\ o.wr # <<>> /\ o.ev.ty = None
         IN 2 + 2 * Len(subs[id].buf) + (IF writes THEN 1 ELSE 0)
\* The work left in the running call, compared lexicographically: the part of
\* the body, the frames of the incoming buffer, the substreams in Yamux, the
\* substream to process, the position in the loop, the ids left to visit.
Variant ==
    CASE pc = "preflush" -> <<2, 0, 0, 0, 0, Cardinality(todo)>>
      [] pc = "ping" -> <<1, 0, 0, 0, 0, 0>>
      [] OTHER ->
           <<0, rw.inc, Cardinality(DOMAIN subs), ProcessMeasure,
             CASE pc = "sweep" -> IF must_continue_looping THEN 3 ELSE 0
               [] pc = "loop" -> 2
               [] OTHER -> 1,
             IF pc = "sweep" THEN Cardinality(todo) ELSE 0>>
RECURSIVE LexLess(_, _)
LexLess(a, b) ==
    /\ a # <<>>
    /\ \/ Head(a) < Head(b)
       \/ Head(a) = Head(b) /\ LexLess(Tail(a), Tail(b))

\* C16: every read_write call returns: while it runs its body can always take
\* its next step, and every step that does not return strictly decreases
\* the work left (a bounded, lexicographically ordered measure), so that the
\* main loop goes round finitely many times.
C16_ReadWriteReturns ==
    /\ [](Running => CanStep)
    /\ [][(Running /\ Running') => LexLess(Variant', Variant)]_vars
\* A call went round the main loop for each of two frames and returned idle.
C16_Witness ==
    /\ pc = "returned"
    /\ ret.site = "idle"
    /\ rw.read = 2
    /\ rw.inc = 0

\* C17: the bytes appended to the outbound queue during one read_write call
\* never exceed the capacity the scratchpad had on entry; with a capacity of
\* 0 or a closed write side none is appended, while the incoming frames are
\* still consumed one per decoding step.
C17_OutboundWithinCapacity ==
    /\ [](rw.written <= Max(rw.cap0, 0))
    /\ [][(pc = "decode" /\ rw.inc > 0 /\ pc' \notin {"panicked", "failed"}) =>
            /\ rw'.read = rw.read + 1
            /\ rw'.inc = rw.inc - 1
            /\ rw'.written - rw.written <= Max(rw.cap, 0)]_vars
\* A call without write capacity consumed a frame and left the queued bytes
\* in Yamux.
C17_Witness ==
    /\ pc = "returned"
    /\ rw.cap0 = 0
    /\ rw.read > 0
    /\ rw.written = 0
    /\ SumQueued(subs, DOMAIN subs) > 0

\* C18: add_request extends the window of the new substream by exactly
\* sat_sub(sat_add(min(max_response_size, u64::MAX), 64),
\* NEW_SUBSTREAMS_FRAME_SIZE): u64::MAX - NEW_SUBSTREAMS_FRAME_SIZE when the
\* addition saturates, 0 when the subtraction does, the plain value
\* otherwise; it never aborts, for 0 and for usize::MAX as for the rest.
C18_RequestWindowGrant ==
    [][(pc = "idle" /\ ~goaway_in /\ next_out' # next_out
            /\ hist'.max_response # {}) =>
         LET m  == CHOOSE n \in hist'.max_response : TRUE
             id == LocalId(next_out)
             extension ==
                 IF m >= U64Max - 64 THEN U64Max - NEW_SUBSTREAMS_FRAME_SIZE
                 ELSE IF m + 64 <= NEW_SUBSTREAMS_FRAME_SIZE THEN 0
                 ELSE m + 64 - NEW_SUBSTREAMS_FRAME_SIZE
         IN /\ pc' = "idle"
            /\ has_substream(subs', id)
            /\ subs'[id].win = NEW_SUBSTREAMS_FRAME_SIZE + extension
            /\ subs'[id].win \in 0..U64Max]_vars
\* A request was added with max_response_size usize::MAX: the addition
\* saturated and the window is u64::MAX.
C18_Witness ==
    /\ pc = "idle"
    /\ has_substream(subs, LocalId(1))
    /\ hist.max_response = {U64Max}
    /\ subs[LocalId(1)].win = U64Max

\* The components of a multiaddress by protocol, ip4/ip6 and dns/dns4/dns6
\* taken together.
Shape(m) ==
    [i \in 1..Len(m) |->
        IF m[i].p \in {"Ip4", "Ip6"} THEN "ip"
        ELSE IF m[i].p \in {"Dns", "Dns4", "Dns6"} THEN "dns"
        ELSE m[i].p]
\* The table of the recognized combinations.
Recognized(shape) ==
    CASE shape = <<"ip", "Tcp">> -> "TcpIp"
      [] shape = <<"dns", "Tcp">> -> "TcpDns"
      [] shape = <<"ip", "Tcp", "Ws">> -> "WebSocketIp"
      [] shape = <<"dns", "Tcp", "Ws">> -> "WebSocketDns"
      [] shape = <<"dns", "Tcp", "Wss">> -> "WebSocketDnsSecure"
      [] shape = <<"dns", "Tcp", "Tls", "Ws">> -> "WebSocketDnsSecure"
      [] shape = <<"ip", "Udp", "WebRtcDirect", "Certhash">> -> "WebRtc"
      [] OTHER -> "UnknownCombination"
\* The payloads of a recognized multiaddress are well-formed: a host name in
\* UTF-8, a certhash of SHA-256 with 32 bytes.
WellFormed(m) ==
    /\ Shape(m)[1] = "dns" => \A i \in 1..Len(m[1].v) : m[1].v[i] < 128
    /\ Len(m) = 4 /\ m[4].p = "Certhash" => m[4].v[1] = 12 /\ Len(m[4].v) = 34

\* C19: multiaddr_to_address answers UnknownCombination exactly for the
\* sequences that are not in the table of recognized combinations (those of
\* fewer than 2 or more than 4 components and ip4|ip6/tcp/wss among them),
\* and maps a recognized sequence to the address of its row, with the ip
\* address or host name and the port of its components.
C19_RecognizedCombinations ==
    parsed # NotParsed =>
        LET m == multiaddr
            row == Recognized(Shape(m))
            ip == [version |-> IF m[1].p = "Ip4" THEN "V4" ELSE "V6", ip |-> m[1].v]
        IN /\ parsed = Err("UnknownCombination") <=> row = "UnknownCombination"
           /\ (Len(m) < 2 \/ Len(m) > 4) => parsed = Err("UnknownCombination")
           /\ Shape(m) = <<"ip", "Tcp", "Wss">> => parsed = Err("UnknownCombination")
           /\ row # "UnknownCombination" /\ WellFormed(m) => parsed.tag = "Ok"
           /\ parsed.tag = "Ok" =>
                parsed.v =
                  CASE row = "TcpIp" -> [kind |-> "TcpIp", ip |-> ip, port |-> m[2].v[1]]
                    [] row = "TcpDns" ->
                         [kind |-> "TcpDns", hostname |-> m[1].v, port |-> m[2].v[1]]
                    [] row = "WebSocketIp" ->
                         [kind |-> "WebSocketIp", ip |-> ip, port |-> m[2].v[1]]
                    [] row = "WebSocketDns" ->
                         [kind |-> "WebSocketDns", hostname |-> m[1].v,
                          port |-> m[2].v[1], secure |-> FALSE]
                    [] row = "WebSocketDnsSecure" ->
                         [kind |-> "WebSocketDns", hostname |-> m[1].v,
                          port |-> m[2].v[1], secure |-> TRUE]
                    [] row = "WebRtc" ->
                         [kind |-> "WebRtc", ip |-> ip, port |-> m[2].v[1],
                          remote_certificate_sha256 |-> SubSeq(m[4].v, 3, 34)]
\* /dns/a/tcp/443/tls/ws was parsed to the secure WebSocketDns address.
C19_Witness ==
    /\ Len(multiaddr) = 4
    /\ multiaddr[3].p = "Tls"
    /\ parsed = Ok([kind |-> "WebSocketDns", hostname |-> <<97>>, port |-> 443,
                    secure |-> TRUE])

ParsedMultiaddrs == {m \in Multiaddrs : multiaddr_to_address(m).tag = "Ok"}
\* A multiaddress with dns4 and dns6 written dns, and /tls/ws written /wss.
Canonical(m) ==
    LET dns == [i \in 1..Len(m) |->
                   IF m[i].p \in {"Dns4", "Dns6"} THEN [m[i] EXCEPT !.p = "Dns"]
                   ELSE m[i]]
    IN IF Len(m) = 4 /\ m[3].p = "Tls" /\ m[4].p = "Ws"
       THEN <<dns[1], dns[2], [p |-> "Wss", v |-> <<>>]>>
       ELSE dns
\* The statement as first written: no other multiaddress is parsed to the
\* address a recognized multiaddress is parsed to.
C21_Original ==
    parsed.tag = "Ok" =>
        \A m \in ParsedMultiaddrs : multiaddr_to_address(m) = parsed => m = multiaddr
\* C21: the address of a recognized multiaddress determines the multiaddress
\* up to the spelling of dns (dns, dns4, dns6) and of the secure WebSocket
\* (/wss, /tls/ws): two recognized multiaddresses are parsed to the same
\* address exactly when they are the same after these are written one way.
C21_ParseInjectiveUpToSpelling ==
    parsed.tag = "Ok" =>
        \A m \in ParsedMultiaddrs :
            multiaddr_to_address(m) = parsed <=> Canonical(m) = Canonical(multiaddr)
\* /dns4/a/tcp/443/tls/ws was parsed; /dns/a/tcp/443/wss gives the same address.
C21_Witness ==
    /\ parsed.tag = "Ok"
    /\ Len(multiaddr) = 4
    /\ multiaddr[1].p = "Dns4"
    /\ multiaddr[3].p = "Tls"
    /\ multiaddr_to_address(Canonical(multiaddr)) = parsed
    /\ Canonical(multiaddr) # multiaddr

\* C22: Yamux is handed incoming data only while no substream is pending
\* processing: the assertion before incoming_data never fails, and a byte of
\* the transport is decoded only in a state where substream_to_process is
\* None; once a DataFrame has set it, it stays set until process_substream
\* has reported no re-entry or the substream has left Yamux.
C22_NoDecodeWhilePending ==
    /\ [](hist.panic # "assert_stp")
    /\ [](pc = "decode" => substream_to_process = 0)
    /\ [][/\ frames_left' # frames_left => substream_to_process = 0
          /\ (substream_to_process # 0 /\ substream_to_process' = 0) =>
                \/ pc = "loop"
                \/ pc' = "panicked"]_vars
\* Incoming data is about to be decoded again in a call that has decoded a
\* DataFrame and processed its substream.
C22_Witness ==
    /\ pc = "decode"
    /\ rw.read >= 1
    /\ rw.inc >= 1
    /\ hist.last = "Data"
    /\ substream_to_process = 0

\* C23: the inbound buffer of every present slot is, in order, the bytes the
\* DataFrames of its substream yielded that its D-machine has not read:
\* nothing is duplicated, reordered or dropped while the slot is present,
\* between calls and during them.
C23_BufferIsUnreadSuffix ==
    \A id \in DOMAIN subs : subs[id].present => subs[id].buf = Pending(hist, id)
\* Between two calls, substream 2 has read the byte of its first DataFrame
\* (negotiation is over) and holds the byte of the second one.
C23_Witness ==
    /\ pc = "idle"
    /\ has_substream(subs, 2)
    /\ subs[2].present
    /\ subs[2].d.ph # "InNego"
    /\ Len(subs[2].buf) = 1
    /\ hist.owed = 1

\* C24: a step of process_substream in which the D-machine reports no next
\* state leaves the slot absent and the substream dead: it is reset exactly
\* when its read side was open or its write side stays open, and reset is
\* not called on a substream that is dead already (the unwrap of its result
\* does not abort).  Hence between calls every substream of Yamux whose slot
\* is absent is reset or closed on both halves, and the sweep that visits
\* such a substream removes it.
C24_AbsentSlotIsDead ==
    /\ [](hist.panic # "reset_unwrap")
    /\ [](pc = "idle" =>
            \A id \in DOMAIN subs :
                ~subs[id].present => subs[id].reset \/ (~subs[id].rd /\ ~subs[id].wr))
    /\ [][\A id \in DOMAIN subs :
            /\ (pc \in {"preflush", "loop"} /\ subs[id].present /\ id \in DOMAIN subs'
                    /\ ~subs'[id].present) =>
                 /\ subs'[id].reset \/ (~subs'[id].rd /\ ~subs'[id].wr)
                 /\ (subs'[id].reset /\ ~subs[id].reset) => (subs[id].rd \/ subs[id].wr)
                 /\ ~subs'[id].reset => ~subs[id].rd
                 /\ (subs[id].rd /\ ~subs[id].reset) => subs'[id].reset
            /\ (pc = "sweep" /\ ~subs[id].present /\ id \in todo /\ id \notin todo'
                    /\ pc' \notin {"returned", "panicked"}) =>
                 id \notin DOMAIN subs']_vars
\* Between two calls, substream 2 is in Yamux with its slot absent and is
\* reset: its D-machine reported no next state.
C24_Witness ==
    /\ pc = "idle"
    /\ has_substream(subs, 2)
    /\ ~subs[2].present
    /\ subs[2].reset
    /\ hist.panic = None

\* C25: bytes are appended to an inbound buffer only for a substream whose
\* read side Yamux reports open and whose slot is present: whenever Yamux
\* reports a DataFrame the slot is there, and the unwrap of the DataFrame
\* branch does not abort.
C25_DataFrameFindsSlot ==
    /\ [](hist.panic # "data_unwrap")
    /\ [](\A id \in DOMAIN subs : ~subs[id].present => ~can_receive(subs, id))
    /\ [][\A id \in DOMAIN subs \cap DOMAIN subs' :
            Len(subs'[id].buf) > Len(subs[id].buf) =>
                /\ pc = "decode"
                /\ can_receive(subs, id)
                /\ subs[id].present /\ subs'[id].present]_vars
\* A DataFrame of substream 2 was appended to a buffer that held a byte; the
\* substream is now pending processing.
C25_Witness ==
    /\ hist.last = "Data"
    /\ has_substream(subs, 2)
    /\ subs[2].present
    /\ Len(subs[2].buf) = 2
    /\ substream_to_process = 2

\* C26: bytes are queued to Yamux only by process_substream and only for a
\* substream whose write side was open before the step; a write side that
\* is closed stays closed, and Yamux::close is called only on an open write
\* side (once per substream), so neither the assertion before Yamux::write
\* nor the unwrap of Yamux::close aborts.
C26_NoWriteAfterClose ==
    /\ [](hist.panic \notin {"assert_write", "close_unwrap"})
    /\ [][\A id \in DOMAIN subs \cap DOMAIN subs' :
            /\ Len(subs'[id].wq) > Len(subs[id].wq) =>
                 /\ pc \in {"preflush", "loop"}
                 /\ can_send(subs, id)
            /\ ~can_send(subs, id) => ~can_send(subs', id)
            /\ (subs[id].wr /\ ~subs'[id].wr /\ pc # "decode") =>
                 /\ pc \in {"preflush", "loop"}
                 /\ can_send(subs, id)
                 /\ subs[id].present]_vars
\* The first outgoing request has bytes queued in Yamux and its write side
\* closed: its D-machine wrote the request and closed in one step.
C26_Witness ==
    /\ has_substream(subs, LocalId(1))
    /\ ~subs[LocalId(1)].wr
    /\ ~subs[LocalId(1)].reset
    /\ subs[LocalId(1)].wq # <<>>
    /\ subs[LocalId(1)].present

C28_Visited ==
    {id \in todo \ todo' : (pc' = "returned" /\ ret'.ev.ty # None) => ret'.ev.id = id}
C28_TwoPhaseRemoval ==
    /\ [](hist.swept = "ok")
    /\ []((pc = "sweep") => todo \subseteq dead_substreams(subs))
    /\ [][(pc # "sweep" /\ pc' = "sweep") => todo' = dead_substreams(subs')]_vars
    /\ [][(pc = "sweep" /\ pc' # "panicked") =>
            \A id \in C28_Visited :
                /\ YDeath(subs[id]) = "Reset" \/ ~subs[id].present
                      => id \notin DOMAIN subs'
                /\ (pc' = "returned" /\ ret'.site = "sweep_reset") => subs[id].present
                /\ id \in DOMAIN subs' =>
                      /\ subs'[id].present
                      /\ YDeath(subs'[id]) = "ClosedGracefully"
                      /\ subs'[id].buf = subs[id].buf
                      /\ subs'[id].ud = subs[id].ud]_vars
\* Between two calls a gracefully closed substream is still in Yamux with
\* its D-machine, which the sweep ticked and put back.
C28_Witness ==
    /\ pc = "idle"
    /\ \E id \in DOMAIN subs :
          /\ YDeath(subs[id]) = "ClosedGracefully"
          /\ subs[id].present
          /\ subs[id].d.ph = "NotifOutClosed"

\* C29 as stated: the graceful-close tick shows D an empty scratchpad with
\* the read side closed and the write side open, and D reads and writes
\* nothing.
C29_Original ==
    /\ hist.panic # "assert_sweep"
    /\ \A k \in hist.tick :
          /\ k.scratchpad.inc = <<>>
          /\ k.scratchpad.rdClosed
          /\ ~k.scratchpad.wrClosed
          /\ k.read = 0 /\ k.wr = <<>>
\* C29: the graceful-close tick of the sweep shows D an empty scratchpad
\* with the read side closed and the write side closed, and D neither reads
\* nor writes a byte in that step (the assertion after the tick holds).
C29_SweepScratchpadClosed ==
    /\ hist.panic # "assert_sweep"
    /\ \A k \in hist.tick :
          /\ k.scratchpad.inc = <<>>
          /\ k.scratchpad.rdClosed
          /\ k.scratchpad.wrClosed
          /\ k.read = 0 /\ k.wr = <<>>
\* The sweep ticked the D-machine of a gracefully closed substream and the
\* call went on or returned.
C29_Witness == hist.tick # {} /\ pc \in {"loop", "returned", "sweep"}

C31_Totals ==
    {NEW_SUBSTREAMS_FRAME_SIZE}
    \cup {saturating_add(NEW_SUBSTREAMS_FRAME_SIZE, RequestWindowGrant(m)) :
             m \in cfg.max_responses}
C31_CreditFollowsConsumption ==
    \A id \in DOMAIN subs :
        subs[id].present =>
            /\ subs[id].win + Len(subs[id].buf) \in C31_Totals
            /\ subs[id].win >= 0
\* Between two calls a substream that was yielded data has an empty buffer
\* and its whole window again: D consumed the bytes and the credit went back.
C31_Witness ==
    /\ pc = "idle"
    /\ \E id \in hist.fed \cap DOMAIN subs :
          /\ subs[id].present
          /\ subs[id].buf = <<>>
          /\ subs[id].win = NEW_SUBSTREAMS_FRAME_SIZE
          /\ YDeath(subs[id]) = "Alive"

\* C32 as stated: during one read_write call no D-machine is stepped twice,
\* the pre-flush pass, the main loop and the sweep counted together.
C32_Original == hist.again = {}
\* C32: during one read_write call the pre-flush pass steps each D-machine
\* at most once; a machine is stepped again only by the main loop, as the
\* substream to process, and by the sweep, as a gracefully closed substream
\* of its list.
C32_OneStepPerPass ==
    /\ []("preflush" \notin hist.again)
    /\ [][hist'.stepped # hist.stepped \/ hist'.again # hist.again =>
            \/ pc = "preflush" /\ hist'.again = hist.again
                  /\ hist'.stepped \ hist.stepped \subseteq todo
            \/ pc = "loop" /\ hist'.stepped = hist.stepped \cup {substream_to_process}
            \/ pc = "sweep" /\ \E id \in todo :
                  /\ YDeath(subs[id]) = "ClosedGracefully"
                  /\ hist'.stepped = hist.stepped \cup {id}
            \/ pc \in {"returned", "responded"} /\ hist'.stepped = {}]_vars
\* A call returns after its main loop stepped a D-machine that its
\* pre-flush pass had stepped already.
C32_Witness == pc = "returned" /\ "loop" \in hist.again /\ "preflush" \notin hist.again

\* C33 as stated: whenever read_write returns Ok, the scratchpad has a
\* wake-up no later than next_ping.
C33_Original ==
    (pc = "returned" /\ ret.kind = "Ok") => (rw.wake # -1 /\ rw.wake <= next_ping)
\* C33: every read_write call that gets past the ping scheduling registers
\* a wake-up at next_ping: whenever it returns Ok from the main loop, with
\* or without an event, the scratchpad has a wake-up no later than
\* next_ping.
C33_WakeUpAtNextPing ==
    /\ (pc = "returned" /\ ret.kind = "Ok" /\ ret.site \notin {"preflush", "ping"})
            => (rw.wake # -1 /\ rw.wake <= next_ping)
    /\ pc \in {"loop", "decode", "sweep"} => (rw.wake # -1 /\ rw.wake <= next_ping)
\* A call returns an event from its main loop with the wake-up set to
\* next_ping.
C33_Witness ==
    pc = "returned" /\ ret.kind = "Ok" /\ ret.site = "loop" /\ rw.wake = next_ping

\* C34: read_write closes the write side of the transport only in a state
\* where Yamux holds no substream, alive or dead, the local GoAway has been
\* sent, not merely queued, and a GoAway has been received; nothing of this
\* changes afterwards.
C34_NoPrematureCloseWrite ==
    /\ [][(rw.cap # -1 /\ rw'.cap = -1) =>
            /\ pc = "loop"
            /\ DOMAIN subs = {} /\ DOMAIN subs' = {}
            /\ goaway_out = "Sent"
            /\ goaway_in]_vars
    /\ [](rw.cap = -1 => (DOMAIN subs = {} /\ goaway_out = "Sent" /\ goaway_in))
\* The running call has closed the write side that was open when it began,
\* and has returned.
C34_Witness ==
    pc = "returned" /\ rw.cap = -1 /\ rw.cap0 # -1 /\ ret.kind = "Ok"

\* The PlatformRef objects that reference a connection: its MultiStreamWrapper
\* and its StreamWrappers.
HandlesOf(connection_id) ==
    (IF connection_id \in multi_wrappers THEN 1 ELSE 0)
        + Cardinality({k \in DOMAIN stream_wrappers : k[1] = connection_id})

\* C35: a connection entry is removed exactly when the number of handles
\* referencing it goes from 1 to 0: whatever the order of the drops, before or
\* after connection_reset, no drop finds the entry of its connection already
\* removed (no handle is left without its entry, no unwrap on a missing entry),
\* and no entry remains once the connect future has resolved and the last
\* handle was dropped.
C35_EntryLivesWithHandles ==
    /\ fault \notin {"StreamWrapper::drop: connections unwrap",
                     "MultiStreamWrapper::drop: connections unwrap"}
    /\ \A connection_id \in ConnectionIds :
        /\ HandlesOf(connection_id) > 0 => connection_id \in Connections
        /\ connection_id \in Connections =>
               connection_id \in DOMAIN futures \/ HandlesOf(connection_id) > 0

\* C36: whenever the future of connect_stream / connect_multistream can observe
\* the Reset state, connection_handles_alive is 0: the debug assertion of its
\* Reset arm holds under every interleaving of the host callbacks with its
\* polling.
C36_ResetObservedWithoutHandles ==
    /\ fault \notin {"connect_stream: debug_assert_eq",
                     "connect_multistream: debug_assert_eq"}
    /\ \A connection_id \in DOMAIN futures :
        NetworkState.connections[connection_id].inner = "Reset" =>
            NetworkState.connections[connection_id].connection_handles_alive = 0

\* C37: the registry has no orphan streams: every entry of streams belongs to
\* a connection that has an entry in connections, and an open single-stream
\* connection has exactly one stream entry, keyed with stream id None.
C37_NoOrphanStreams ==
    /\ \A key \in Streams : key[1] \in Connections
    /\ \A connection_id \in Connections :
        NetworkState.connections[connection_id].inner = "SingleStreamMsNoiseYamux" =>
            StreamsOf(connection_id) = {<<connection_id, NoStreamId>>}

\* C40: the writable bytes are never exceeded: the assertion of
\* ReadWriteAccess::drop holds, and the bytes passed to stream_send on a stream
\* never exceed its initial writable bytes plus the credits the host reported
\* for it.
C40_WritableBytesNotExceeded ==
    /\ fault # "ReadWriteAccess::drop: assert"
    /\ \A key \in DOMAIN host.sent : host.sent[key] <= host.granted[key]

\* A step in which the future of wait_read_write_again returns for `key`
\* having looked at its queue: it emptied a non-empty queue, or it found the
\* stream reset.
WaitReturned(key) ==
    /\ key \in DOMAIN stream_wrappers /\ key \in DOMAIN stream_wrappers'
    /\ key \in Streams /\ key \in DOMAIN NetworkState'.streams
    /\ \/ /\ NetworkState.streams[key].messages_queue # <<>>
          /\ NetworkState'.streams[key].messages_queue = <<>>
       \/ ~stream_wrappers[key].is_reset /\ stream_wrappers'[key].is_reset

\* The queued messages of `key` were moved to its read buffer in arrival order
\* and the total was reset.
QueueMoved(key) ==
    /\ NetworkState'.streams[key].messages_queue = <<>>
    /\ NetworkState'.streams[key].messages_queue_total_size = 0
    /\ stream_wrappers'[key].read_buffer =
           stream_wrappers[key].read_buffer \o NetworkState.streams[key].messages_queue

\* messages_queue holds no empty message and messages_queue_total_size is the
\* sum of the lengths of its messages.
QueueAccounted ==
    \A key \in Streams :
        LET stream == NetworkState.streams[key] IN
        /\ \A i \in 1..Len(stream.messages_queue) : stream.messages_queue[i].len # 0
        /\ stream.messages_queue_total_size = SumLen(stream.messages_queue)

\* C38 as stated: QueueAccounted in every reachable state, and every return of
\* wait_read_write_again moves the queued messages to the read buffer in
\* arrival order and resets the total to 0.
C38_Original ==
    /\ []QueueAccounted
    /\ [][\A key \in StreamKeys : WaitReturned(key) => QueueMoved(key)]_vars

\* C38: QueueAccounted in every reachable state; wait_read_write_again, on a
\* stream that was not reset, moves the queued messages to the read buffer in
\* arrival (FIFO) order and resets the total to 0; on a stream that was reset
\* it leaves the queue and its total as they are.
C38_QueueMovedInOrder ==
    /\ []QueueAccounted
    /\ [][\A key \in StreamKeys :
            WaitReturned(key) =>
                IF NetworkState.streams[key].reset
                THEN /\ NetworkState' = NetworkState
                     /\ stream_wrappers'[key].read_buffer = stream_wrappers[key].read_buffer
                ELSE QueueMoved(key)]_vars

\* Two messages of different lengths were queued one after the other and
\* wait_read_write_again moved them to the read buffer.
C38_Witness ==
    \E key \in DOMAIN stream_wrappers :
        /\ key \in Streams
        /\ stream_wrappers[key].read_buffer =
               <<Message(MESSAGES_QUEUE_LIMIT - 1, 0), Message(MESSAGES_QUEUE_LIMIT, 1)>>
        /\ NetworkState.streams[key].messages_queue = <<>>
        /\ NetworkState.streams[key].messages_queue_total_size = 0
        /\ ~NetworkState.streams[key].reset

====
